---- MODULE Spec2Model ----
(***************************************************************************)
(* The document store (DocStore) and the session tracker (Root handlers)   *)
(* of foliadocserve.py as a state machine.  One action per HTTP handler;   *)
(* each handler runs to completion, one request at a time.                 *)
(***************************************************************************)
EXTENDS Integers, Sequences, FiniteSets, TLC

VARIABLES
    now,         \* time.time(), in seconds
    git,         \* DocStore.git: the work directory is a git repository
    files,       \* keys whose .folia.xml file exists in the work directory
    data,        \* DocStore.data: the keys of the resident documents
    unsaved,     \* resident documents changed in memory since their last save
    lastchange,  \* DocStore.lastchange: key -> time
    updateq,     \* DocStore.updateq: key -> session id -> list of element ids
    lastaccess,  \* DocStore.lastaccess: key -> session id -> time
    owed,        \* key -> session id -> the ids committed on key by other
                 \* sessions since the session's last own request on key
    scope,       \* the documents and the sessions the clients address
    queries,     \* annotate: the statements of the request not yet parsed
    pdata,       \* annotate: data, the edits parsed so far per document
    pstatus,     \* annotate: "ok" or the exception the last parsequery raised
    pc,          \* per request thread: the statement it is at
    loc,         \* per request thread: its request and its local variables
    docs,        \* the Document objects made so far: object -> the edits in it
    resident,    \* DocStore.data[K] of the threads' document K: object or 0
    disk,        \* the edits in the file of K
    lists,       \* the list objects made so far: object -> element ids
    qlist,       \* DocStore.updateq[K][B]: the list object that is B's queue
    got,         \* the element ids the polls of B have returned
    doc,         \* doannotation: the Document the edits are applied to
    response     \* doannotation: the response to the last batch of edits

storevars == <<now, git, files, data, unsaved, lastchange, updateq, lastaccess,
               owed, scope>>
parservars == <<queries, pdata, pstatus>>
threadvars == <<pc, loc, docs, resident, disk, lists, qlist, got>>
applyvars == <<doc, response>>
vars == <<storevars, parservars, threadvars, applyvars>>

----------------------------------------------------------------------------
(* Bounds of the model *)

MaxTicks == 2   \* the clock advances at most this many times
MaxQueue == 2   \* no pending queue grows beyond this length
MaxIds == 1     \* returnelementids of one edit batch holds at most this many ids
MaxDocs == 2    \* one annotate request selects at most this many documents

(* Program constants *)

SessionTimeout == 3600 * 12   \* checkexpireconcurrency: "expire after 12 hours"
expiretime == 900             \* --expirationtime, default

(* Input sets *)

NOSID == <<"N", "O", "S", "I", "D">>
A == <<"A">>
B == <<"B">>
Sessions == {A, B, NOSID}
D1 == <<"ns", "d1">>
D2 == <<"ns", "d2">>
T1 == <<"testflat", "d1">>
Keys == {D1, D2, T1}
TestKey == <<"testflat", "testflat">>
ForeignKey == <<"other", "d1">>
RootId == "root"         \* the id of a document's root element, doc.data[0].id
ElementIds == {"w1"}     \* the ids an edit batch reports as affected

----------------------------------------------------------------------------
(* Python dict / defaultdict(dict) / list primitives *)

EmptyMap == [x \in {} |-> <<>>]

Put(f, k, v) == [x \in (DOMAIN f) \cup {k} |-> IF x = k THEN v ELSE f[x]]

Del(f, k) == [x \in (DOMAIN f) \ {k} |-> f[x]]

\* defaultdict.__getitem__: a missing key is inserted with an empty dict
Touch(dd, k) == IF k \in DOMAIN dd THEN dd ELSE Put(dd, k, EmptyMap)

\* dd[k][s] = v on a defaultdict(dict)
SetItem(dd, k, s, v) == Put(dd, k, Put(Touch(dd, k)[k], s, v))

RECURSIVE IndexOf(_, _, _)
IndexOf(q, e, i) ==
    IF i > Len(q) THEN 0
    ELSE IF q[i] = e THEN i
    ELSE IndexOf(q, e, i + 1)

\* list.remove(e) inside try/except: drops the first occurrence, if any
ListRemove(q, e) ==
    LET i == IndexOf(q, e, 1)
    IN  IF i = 0 THEN q
        ELSE SubSeq(q, 1, i - 1) \o SubSeq(q, i + 1, Len(q))

\* sid[-5:] != 'NOSID'
IsNoSid(sid) ==
    /\ Len(sid) >= 5
    /\ SubSeq(sid, Len(sid) - 4, Len(sid)) = NOSID

Range(q) == {q[i] : i \in DOMAIN q}

----------------------------------------------------------------------------
(* The server's mutable state as one value S, so that a handler is a       *)
(* function from S to S.                                                   *)

Server == [data |-> data, unsaved |-> unsaved, lastchange |-> lastchange,
           files |-> files, updateq |-> updateq, lastaccess |-> lastaccess]

(* DocStore *)

\* load / __getitem__: the test namespace maps to one fixed key
StoreKey(key) == IF key[1] = "testflat" THEN TestKey ELSE key

\* DocStore.load does not raise NoSuchDocument
CanLoad(S, key) == StoreKey(key) \in S.data \/ StoreKey(key) \in S.files

\* DocStore.load (and __getitem__) when it does not raise
load(S, key, t) ==
    LET k == StoreKey(key)
    IN  IF k \in S.data THEN S
        ELSE [S EXCEPT !.data = @ \cup {k},
                       !.lastchange = Put(@, k, t)]

\* save that leaves the file and the unsaved mark as they are
saveNothing(S, key, t) == load(S, key, t)

\* DocStore.save when it does not raise (it raises exactly when load does)
save(S, key, t) ==
    LET S1 == load(S, key, t)
    IN  IF key[1] = "testflat" THEN S1
        ELSE [S1 EXCEPT !.files = @ \cup {key},
                        !.unsaved = @ \ {key}]

\* DocStore.__setitem__
setitem(S, key) == [S EXCEPT !.data = @ \cup {key}]

\* unload that also drops the key's session records
unloadSessions(S, key, dosave, t) ==
    LET S1 == IF dosave THEN save(S, key, t) ELSE S
    IN  [S1 EXCEPT !.data = @ \ {key},
                   !.unsaved = @ \ {key},
                   !.lastchange = Del(@, key),
                   !.updateq = Del(@, key),
                   !.lastaccess = Del(@, key)]

\* DocStore.unload of a resident key whose save does not raise.
\* "del self.lastchange[key]" raises KeyError, after the document is gone,
\* when the key has no last-change entry; the store is the same either way.
unload(S, key, dosave, t) ==
    LET S1 == IF dosave THEN save(S, key, t) ELSE S
    IN  [S1 EXCEPT !.data = @ \ {key},
                   !.unsaved = @ \ {key},
                   !.lastchange = Del(@, key)]

\* DocStore.unload with its outcome: NoSuchDocument for a key that is not
\* resident, KeyError from "del self.lastchange[key]" for a resident key
\* without a last-change entry
unloadcall(S, key, dosave, t) ==
    IF key \notin S.data THEN [S |-> S, status |-> "NoSuchDocument"]
    ELSE [S |-> unload(S, key, dosave, t),
          status |-> IF key \in DOMAIN S.lastchange THEN "ok" ELSE "KeyError"]

\* __getitem__ that registers the key before it finds the file missing
getitemInsert(S, key, t) ==
    IF CanLoad(S, key) THEN [S |-> load(S, key, t), status |-> "ok"]
    ELSE [S |-> [S EXCEPT !.data = @ \cup {StoreKey(key)},
                          !.lastchange = Put(@, StoreKey(key), t)],
          status |-> "NoSuchDocument"]

\* DocStore.__getitem__ with its outcome: load raises NoSuchDocument before
\* it assigns anything
getitem(S, key, t) ==
    IF CanLoad(S, key) THEN [S |-> load(S, key, t), status |-> "ok"]
    ELSE [S |-> S, status |-> "NoSuchDocument"]

\* DocStore.autounload: the keys its first loop selects
autounloadkeys(S, t) ==
    {key \in DOMAIN S.lastchange : S.lastchange[key] > t + expiretime}

\* DocStore.autounload: its second loop, over the selected keys in order;
\* unload raises NoSuchDocument at the first key that is not resident
RECURSIVE autounloadloop(_, _, _, _)
autounloadloop(S, order, dosave, t) ==
    IF order = <<>> THEN [S |-> S, status |-> "ok"]
    ELSE IF Head(order) \notin S.data \/ (dosave /\ ~CanLoad(S, Head(order)))
         THEN [S |-> S, status |-> "500"]
    ELSE autounloadloop(unload(S, Head(order), dosave, t), Tail(order), dosave, t)

----------------------------------------------------------------------------
(* Session tracker *)

\* Root.checkexpireconcurrency: the (document, session) pairs it deletes
deletelist(S, t) ==
    {ds \in UNION {{<<d, s>> : s \in DOMAIN S.updateq[d]} : d \in DOMAIN S.updateq} :
        /\ ds[1] \in DOMAIN S.lastaccess
        /\ ds[2] \in DOMAIN S.lastaccess[ds[1]]
        /\ t - S.lastaccess[ds[1]][ds[2]] > SessionTimeout}

\* one of the two maps after the deletions: a document's entry goes when a
\* deletion left it empty
purge(m, dl) ==
    LET rest(d) == {s \in DOMAIN m[d] : <<d, s>> \notin dl}
        keep == {d \in DOMAIN m : rest(d) # {} \/ rest(d) = DOMAIN m[d]}
    IN  [d \in keep |-> [s \in rest(d) |-> m[d][s]]]

\* Root.checkexpireconcurrency
checkexpireconcurrency(S, t) ==
    LET dl == deletelist(S, t)
    IN  [S EXCEPT !.lastaccess = purge(@, dl),
                  !.updateq = purge(@, dl)]

\* Root.getelements: per element id the timestamp is refreshed, the id is
\* taken off the session's own queue and the document is consulted (loaded
\* when not resident; NoSuchDocument becomes a 404 and ends the loop)
RECURSIVE getelements(_, _, _, _, _)
getelements(S, key, elementids, sid, t) ==
    IF elementids = <<>> THEN [S |-> S, status |-> "ok"]
    ELSE
        LET e == Head(elementids)
            uq == Touch(S.updateq, key)
            S1 == IF IsNoSid(sid) THEN S
                  ELSE [S EXCEPT
                          !.lastaccess = SetItem(@, key, sid, t),
                          !.updateq =
                              IF sid \in DOMAIN uq[key]
                              THEN SetItem(uq, key, sid, ListRemove(uq[key][sid], e))
                              ELSE uq]
        IN  IF ~CanLoad(S1, key) THEN [S |-> S1, status |-> "404"]
            ELSE getelements(load(S1, key, t), key, Tail(elementids), sid, t)

\* getdoc without the line that creates the pending queue
getdocNoQueue(S, key, sid, t) ==
    LET S1 == IF IsNoSid(sid) THEN S
              ELSE [S EXCEPT !.lastaccess = SetItem(@, key, sid, t)]
    IN  IF CanLoad(S1, key) THEN [S |-> load(S1, key, t), status |-> "ok"]
        ELSE [S |-> S1, status |-> "404"]

\* Root.getdoc
getdoc(S, key, sid, t) ==
    LET S1 == IF IsNoSid(sid) THEN S
              ELSE [S EXCEPT !.lastaccess = SetItem(@, key, sid, t),
                             !.updateq = SetItem(@, key, sid, <<>>)]
    IN  IF CanLoad(S1, key) THEN [S |-> load(S1, key, t), status |-> "ok"]
        ELSE [S |-> S1, status |-> "404"]

\* poll with the queue replaced by the empty list before it is read
pollSwapped(S, key, sid, t) ==
    IF key[1] = "testflat" THEN [S |-> S, status |-> "empty", ids |-> <<>>]
    ELSE
        LET S1 == checkexpireconcurrency(S, t)
            S2 == [S1 EXCEPT !.updateq = Touch(@, key)]
        IN  IF sid \in DOMAIN S2.updateq[key]
            THEN [S |-> [S2 EXCEPT !.updateq = SetItem(@, key, sid, <<>>)],
                  status |-> "empty", ids |-> <<>>]
            ELSE [S |-> S2, status |-> "empty", ids |-> <<>>]

\* Root.poll
poll(S, key, sid, t) ==
    IF key[1] = "testflat" THEN [S |-> S, status |-> "empty", ids |-> <<>>]
    ELSE
        LET S1 == checkexpireconcurrency(S, t)
            S2 == [S1 EXCEPT !.updateq = Touch(@, key)]
        IN  IF sid \in DOMAIN S2.updateq[key]
            THEN LET ids == S2.updateq[key][sid]
                     S3 == [S2 EXCEPT !.updateq = SetItem(@, key, sid, <<>>)]
                     r == getelements(S3, key, ids, sid, t)
                 IN  IF ids # <<>>
                     THEN [S |-> r.S, status |-> r.status, ids |-> ids]
                     ELSE [S |-> S3, status |-> "empty", ids |-> <<>>]
            ELSE [S |-> S2, status |-> "empty", ids |-> <<>>]

\* Root.declare; known is whether the annotation type is in folia.XML2CLASS
declare(S, key, sid, known, t) ==
    LET S1 == [S EXCEPT !.lastaccess = SetItem(@, key, sid, t)]
        S2 == load(S1, key, t)
    IN  IF ~CanLoad(S1, key) THEN [S |-> S1, status |-> "500"]
        ELSE IF ~known THEN [S |-> S2, status |-> "500"]
        ELSE [S |-> [S2 EXCEPT !.unsaved = @ \cup {StoreKey(key)}], status |-> "ok"]

\* enqueue that goes through the sessions of every document
enqueueAll(S, key, sid, ids) ==
    LET uq == Touch(S.updateq, key)
    IN  [S EXCEPT !.updateq =
            [k \in DOMAIN uq |-> [s \in DOMAIN uq[k] |->
                IF s # sid THEN uq[k][s] \o ids ELSE uq[k][s]]]]

\* enqueue with the test on the session inverted
enqueueOwn(S, key, sid, ids) ==
    LET uq == Touch(S.updateq, key)
    IN  [S EXCEPT !.updateq =
            Put(uq, key, [s \in DOMAIN uq[key] |->
                            IF s = sid THEN uq[key][s] \o ids ELSE uq[key][s]])]

\* Root.annotate, lines 1149-1154: the ids go to every session of the
\* document's queue map but the committing one
enqueue(S, key, sid, ids) ==
    LET uq == Touch(S.updateq, key)
    IN  [S EXCEPT !.updateq =
            Put(uq, key, [s \in DOMAIN uq[key] |->
                            IF s # sid THEN uq[key][s] \o ids ELSE uq[key][s]])]

\* Root.annotate, the loop over the documents the queries select.
\* items: per selected document, in the order of the parsed data, what
\* doannotation does on it: kind "ok" with the returnelementids, kind "error"
\* (an error response) or "fault" (an exception); earlier edits of a failed
\* batch stay applied, so the document counts as changed in each case.
\* acc: S, status, ret (the returnelementids of the request's own document,
\* <<>> when the response has none), commits (the documents saved with ids).
\* the loop of annotate with a handler that drops the document an edit
\* batch raised on
RECURSIVE annotateloopDrop(_, _, _, _, _)
annotateloopDrop(acc, reqkey, sid, items, t) ==
    IF items = <<>> THEN acc
    ELSE
        LET it == Head(items)
            key == it.key
            own == key[2] = reqkey[2]
            S1 == IF own THEN [acc.S EXCEPT !.lastaccess = SetItem(@, key, sid, t)]
                  ELSE acc.S
            S2 == load(S1, key, t)
            S3 == [S2 EXCEPT !.unsaved = @ \cup {StoreKey(key)}]
            S4 == save(S3, key, t)
            S5 == IF it.ids # <<>> THEN enqueue(S4, key, sid, it.ids) ELSE S4
        IN  IF key[1] # reqkey[1] THEN [acc EXCEPT !.status = "403"]
            ELSE IF ~CanLoad(S1, key) THEN [acc EXCEPT !.S = S1, !.status = "500"]
            ELSE IF it.kind = "fault"
                 THEN [acc EXCEPT !.S = [S1 EXCEPT !.data = @ \ {StoreKey(key)}],
                                  !.status = "error"]
            ELSE IF it.kind # "ok"
                 THEN [acc EXCEPT !.S = S3, !.status = "error"]
            ELSE annotateloopDrop(
                    [S |-> S5, status |-> "run",
                     ret |-> IF own THEN it.ids ELSE acc.ret,
                     commits |-> IF it.ids # <<>>
                                 THEN acc.commits \cup {[key |-> key, ids |-> it.ids]}
                                 ELSE acc.commits],
                    reqkey, sid, Tail(items), t)

RECURSIVE annotateloop(_, _, _, _, _)
annotateloop(acc, reqkey, sid, items, t) ==
    IF items = <<>> THEN acc
    ELSE
        LET it == Head(items)
            key == it.key
            own == key[2] = reqkey[2]
            S1 == IF own THEN [acc.S EXCEPT !.lastaccess = SetItem(@, key, sid, t)]
                  ELSE acc.S
            S2 == load(S1, key, t)
            S3 == [S2 EXCEPT !.unsaved = @ \cup {StoreKey(key)}]
            S4 == save(S3, key, t)
            S5 == IF it.ids # <<>> THEN enqueue(S4, key, sid, it.ids) ELSE S4
        IN  IF key[1] # reqkey[1] THEN [acc EXCEPT !.status = "403"]
            ELSE IF ~CanLoad(S1, key) THEN [acc EXCEPT !.S = S1, !.status = "500"]
            ELSE IF it.kind # "ok"
                 THEN [acc EXCEPT !.S = S3, !.status = "error"]
            ELSE annotateloop(
                    [S |-> S5, status |-> "run",
                     ret |-> IF own THEN it.ids ELSE acc.ret,
                     commits |-> IF it.ids # <<>>
                                 THEN acc.commits \cup {[key |-> key, ids |-> it.ids]}
                                 ELSE acc.commits],
                    reqkey, sid, Tail(items), t)

\* Root.annotate; an empty items is a request without queries or with a
\* query that does not parse
annotate(S, reqkey, sid, items, t) ==
    LET acc == annotateloop([S |-> S, status |-> "run", ret |-> <<>>, commits |-> {}],
                            reqkey, sid, items, t)
        T == acc.S
        r == IF acc.ret # <<>> THEN getelements(T, reqkey, acc.ret, sid, t)
             ELSE IF ~CanLoad(T, reqkey) THEN [S |-> T, status |-> "500"]
             ELSE getelements(load(T, reqkey, t), reqkey, <<RootId>>, sid, t)
        U == IF reqkey[1] = "testflat" /\ r.status = "ok"
             THEN [r.S EXCEPT !.data = @ \ {TestKey}, !.unsaved = @ \ {TestKey}]
             ELSE r.S
    IN  IF items = <<>> THEN [S |-> S, status |-> "error", ids |-> <<>>, commits |-> {}]
        ELSE IF acc.status # "run"
             THEN [S |-> T, status |-> acc.status, ids |-> <<>>, commits |-> acc.commits]
        ELSE [S |-> U, status |-> r.status,
              ids |-> IF r.status = "ok"
                      THEN (IF acc.ret # <<>> THEN acc.ret ELSE <<RootId>>)
                      ELSE <<>>,
              commits |-> acc.commits]

\* Root.revert; valid is whether the commit hash is alphanumeric
revert(S, key, valid, isgit, t) ==
    IF ~valid \/ ~isgit THEN [S |-> S, status |-> "empty"]
    ELSE IF key \notin S.data THEN [S |-> S, status |-> "500"]
    ELSE IF ~CanLoad(S, key) THEN [S |-> S, status |-> "500"]
    ELSE [S |-> unload(S, key, TRUE, t),
          status |-> IF key \in DOMAIN S.lastchange THEN "empty" ELSE "500"]

\* Root.upload; valid is whether the body is a FoLiA document
upload(S, key, valid, t) ==
    LET S1 == setitem(S, key)
    IN  IF ~valid THEN [S |-> S, status |-> "error"]
        ELSE IF ~CanLoad(S1, key) THEN [S |-> S1, status |-> "500"]
        ELSE [S |-> save(S1, key, t), status |-> "ok"]

----------------------------------------------------------------------------
(* Query parser.  A text is a sequence of characters, where a run of        *)
(* characters that holds no blank, quote or slash counts as one character;  *)
(* a word is a slice of the text.                                           *)

SP == " "
QT == "\""
SL == "/"

W(c) == <<c>>

kIN == W("IN")
kADD == W("ADD")
kEDIT == W("EDIT")
kDELETE == W("DELETE")
kWITH == W("WITH")
kFOR == W("FOR")
kAS == W("AS")
kOF == W("OF")
kID == W("ID")
kCORRECTION == W("CORRECTION")
kALTERNATIVE == W("ALTERNATIVE")
kCOMMA == W(",")

Keywords == {kIN, kADD, kEDIT, kDELETE, kWITH, kFOR, kAS}
Verbs == {kADD, kEDIT, kDELETE}

\* folia.XML2CLASS: the annotation types
XML2CLASS == {W("pos"), W("lemma")}

\* str.lower on the runs that are not in lower case already
LowerTable ==
    [c \in {"CLASS", "ID", "IN", "ADD", "EDIT", "DELETE", "WITH", "FOR", "AS",
            "OF", "CORRECTION", "ALTERNATIVE", "NN", "X"} |->
        CASE c = "CLASS" -> "class"
          [] c = "ID" -> "id"
          [] c = "IN" -> "in"
          [] c = "ADD" -> "add"
          [] c = "EDIT" -> "edit"
          [] c = "DELETE" -> "delete"
          [] c = "WITH" -> "with"
          [] c = "FOR" -> "for"
          [] c = "AS" -> "as"
          [] c = "OF" -> "of"
          [] c = "CORRECTION" -> "correction"
          [] c = "ALTERNATIVE" -> "alternative"
          [] c = "NN" -> "nn"
          [] c = "X" -> "x"]

lower(word) ==
    [i \in DOMAIN word |->
        IF word[i] \in DOMAIN LowerTable THEN LowerTable[word[i]] ELSE word[i]]

\* float(word) does not raise ValueError; the float is denoted by its numeral
IsFloat(word) == word \in {W("0.5")}

\* words[i] and "i < len(words)", i counted from 0 as in the source
At(words, i) == words[i + 1]
Has(words, i) == i < Len(words)

\* parsequery, lines 378-397: the split of the query in words
RECURSIVE splitwords(_, _, _, _, _)
splitwords(query, i, begin, inquote, words) ==
    IF ~Has(query, i) THEN words
    ELSE IF At(query, i) = QT
         THEN IF ~inquote THEN splitwords(query, i + 1, i + 1, TRUE, words)
              ELSE splitwords(query, i + 1, begin, FALSE, words)
    ELSE IF At(query, i) = SP /\ ~inquote
         THEN LET word == IF i > 1 /\ At(query, i - 1) = QT
                          THEN SubSeq(query, begin + 1, i - 1)
                          ELSE SubSeq(query, begin + 1, i)
              IN  splitwords(query, i + 1, i + 1, inquote, Append(words, word))
    ELSE splitwords(query, i + 1, begin, inquote, words)

tokenize(query) == splitwords(Append(query, SP), 0, 0, FALSE, <<>>)

\* parseactor that does not read the OF clause
parseactorNoSet(words, i) ==
    IF Len(words) <= i + 1 \/ At(words, i + 1) \notin XML2CLASS
    THEN [status |-> "FQLParseError", annotationtype |-> <<>>,
          set |-> <<>>, id |-> <<>>, skipwords |-> 0]
    ELSE [status |-> "ok", annotationtype |-> At(words, i + 1),
          set |-> <<>>, id |-> <<>>, skipwords |-> 1]

\* parseactor: status, annotationtype, set, id, skipwords; a set or id that
\* is None is the empty word here, which the caller's truth test drops too
parseactor(words, i) ==
    LET none == [status |-> "FQLParseError", annotationtype |-> <<>>,
                 set |-> <<>>, id |-> <<>>, skipwords |-> 0]
        some == [none EXCEPT !.status = "ok", !.annotationtype = At(words, i + 1)]
    IN  IF Len(words) <= i + 1 THEN none
        ELSE IF At(words, i + 1) \notin XML2CLASS THEN none
        ELSE IF Len(words) > i + 3
             THEN IF At(words, i + 2) = kOF
                  THEN [some EXCEPT !.set = At(words, i + 3), !.skipwords = 3]
                  ELSE IF At(words, i + 2) = kID
                  THEN [some EXCEPT !.id = At(words, i + 3), !.skipwords = 3]
                  ELSE [some EXCEPT !.skipwords = 1]
        ELSE [some EXCEPT !.skipwords = 1]

ValueFields == {"class", "annotator", "annotatortype", "id", "n", "text",
                "insertleft", "insertright"}
FlagFields == {"split", "merge"}

\* the word, lowered, is one of the names
Names(word, names) == Len(word) = 1 /\ lower(word)[1] \in names

\* parseassignments, the loop over words[i:]; acc: status, assignments,
\* skipwords, processedwords
RECURSIVE assignloop(_, _, _, _)
assignloop(words, i, j, acc) ==
    IF ~Has(words, i + j) THEN acc
    ELSE
        LET word == At(words, i + j)
            done == [acc EXCEPT !.processedwords = @ + 1]
        IN  IF acc.skipwords > 0
            THEN assignloop(words, i, j + 1,
                            [done EXCEPT !.skipwords = @ - 1])
            ELSE IF word = kFOR THEN acc
            ELSE IF Names(word, ValueFields)
                 THEN IF ~Has(words, i + j + 1)
                      THEN [acc EXCEPT !.status = "IndexError"]
                      ELSE assignloop(words, i, j + 1,
                              [done EXCEPT
                                  !.assignments = Put(@, lower(word)[1], At(words, i + j + 1)),
                                  !.skipwords = @ + 1])
            ELSE IF Names(word, {"confidence"})
                 THEN IF ~Has(words, i + j + 1)
                      THEN [acc EXCEPT !.status = "IndexError"]
                      ELSE IF ~IsFloat(At(words, i + j + 1))
                      THEN [acc EXCEPT !.status = "ValueError"]
                      ELSE assignloop(words, i, j + 1,
                              [done EXCEPT
                                  !.assignments = Put(@, "confidence", At(words, i + j + 1)),
                                  !.skipwords = @ + 1])
            ELSE IF Names(word, FlagFields)
                 THEN assignloop(words, i, j + 1,
                          [done EXCEPT !.assignments = Put(@, lower(word)[1], <<"True">>)])
            ELSE IF word = kCOMMA THEN done
            ELSE [acc EXCEPT !.status = "FQLParseError"]

\* parseassignments
parseassignments(words, i) ==
    assignloop(words, i, 0,
               [status |-> "ok", assignments |-> EmptyMap,
                skipwords |-> 0, processedwords |-> 0])

\* the edit a statement starts from (the datetime is left out)
NewEdit == [editform |-> "direct", targets |-> <<>>,
            actor |-> EmptyMap, assignments |-> EmptyMap]

\* the data of a request: the selected documents in the order of their
\* selection (a dict keeps it) and the edits filed under each
NoData == [order |-> <<>>, edits |-> EmptyMap]

\* word.split('/',1) gives two parts
HasSlash(word) == IndexOf(word, SL, 1) > 0
DocKey(word) ==
    LET n == IndexOf(word, SL, 1)
    IN  <<SubSeq(word, 1, n - 1), SubSeq(word, n + 1, Len(word))>>

\* data[(namespace, docid)] = [] unless the key is there
Select(d, key) ==
    IF key \in DOMAIN d.edits THEN d
    ELSE [order |-> Append(d.order, key), edits |-> Put(d.edits, key, <<>>)]

\* parsequery, the AS branch (lines 413-442) at word i
asclause(words, i, st) ==
    LET corr == [st EXCEPT !.edit = Put(@, "editform", "correction")]
        cset == [corr EXCEPT !.edit = Put(@, "correctionset", At(words, i + 3)),
                             !.skipwords = 3]
        a == parseassignments(words, i + 5)
        withclass == IF "class" \in DOMAIN a.assignments
                     THEN [cset EXCEPT !.edit = Put(@, "correctionclass", a.assignments["class"])]
                     ELSE cset
    IN  IF ~Has(words, i + 1) THEN [st EXCEPT !.status = "IndexError"]
        ELSE IF At(words, i + 1) = kCORRECTION
             THEN IF ~Has(words, i + 2) THEN [corr EXCEPT !.status = "IndexError"]
                  ELSE IF At(words, i + 2) # kOF THEN [corr EXCEPT !.status = "FQLParseError"]
                  ELSE IF ~Has(words, i + 3) THEN [corr EXCEPT !.status = "IndexError"]
                  ELSE IF ~Has(words, i + 4) THEN [cset EXCEPT !.status = "IndexError"]
                  ELSE IF At(words, i + 4) # kWITH THEN cset
                  ELSE IF a.status # "ok" THEN [cset EXCEPT !.status = a.status]
                  ELSE [withclass EXCEPT !.skipwords = 4 + a.processedwords]
        ELSE IF At(words, i + 1) = kALTERNATIVE
             THEN [st EXCEPT !.edit = Put(@, "editform", "alternative"),
                             !.skipwords = 1]
        ELSE [st EXCEPT !.status = "FQLParseError"]

\* the verb branch in which ADD leaves the edit form as it is
verbclauseKeep(words, i, st) ==
    LET act == [st EXCEPT !.edit = Put(@, "action", lower(At(words, i))[1])]
        r == parseactor(words, i)
        a1 == Put(act.edit.actor, "type", r.annotationtype)
        a2 == IF r.set # <<>> THEN Put(a1, "set", r.set) ELSE a1
        a3 == IF r.id # <<>> THEN Put(a2, "id", r.id) ELSE a2
    IN  IF r.status # "ok" THEN [act EXCEPT !.status = r.status]
        ELSE [act EXCEPT !.edit = Put(@, "actor", a3), !.skipwords = r.skipwords]

\* parsequery, the ADD/EDIT/DELETE branch (lines 443-461) at word i; the
\* actor's type is a string, never folia.TextContent, so DELETE always
\* assigns the empty class
verbclause(words, i, st) ==
    LET mode == At(words, i)
        act == [st EXCEPT !.edit = Put(@, "action", lower(mode)[1])]
        r == parseactor(words, i)
        a1 == Put(act.edit.actor, "type", r.annotationtype)
        a2 == IF r.set # <<>> THEN Put(a1, "set", r.set) ELSE a1
        a3 == IF r.id # <<>> THEN Put(a2, "id", r.id) ELSE a2
        e1 == Put(act.edit, "actor", a3)
        e2 == IF mode = kADD THEN Put(e1, "editform", "new")
              ELSE IF mode = kDELETE
                   THEN Put(e1, "assignments", Put(e1.assignments, "class", <<>>))
              ELSE e1
    IN  IF r.status # "ok" THEN [act EXCEPT !.status = r.status]
        ELSE [act EXCEPT !.edit = e2, !.skipwords = r.skipwords]

\* parsequery, the WITH branch (lines 462-465) at word i
withclause(words, i, st) ==
    LET a == parseassignments(words, i + 1)
        merged == [k \in DOMAIN st.edit.assignments \cup DOMAIN a.assignments |->
                      IF k \in DOMAIN a.assignments THEN a.assignments[k]
                      ELSE st.edit.assignments[k]]
    IN  IF a.status # "ok" THEN [st EXCEPT !.status = a.status]
        ELSE [st EXCEPT !.edit = Put(@, "assignments", merged),
                        !.skipwords = a.processedwords]

\* parsequery, the loop over the words (lines 406-482); st: status, mode,
\* skipwords, edit, data
RECURSIVE wordloop(_, _, _)
wordloop(words, i, st) ==
    IF ~Has(words, i) \/ st.status # "ok" THEN st
    ELSE
        LET word == At(words, i)
            m == [st EXCEPT !.mode = word]
        IN  IF st.skipwords > 0
            THEN wordloop(words, i + 1, [st EXCEPT !.skipwords = @ - 1])
            ELSE IF word \in Keywords
                 THEN IF st.mode = <<>> /\ word # kIN
                      THEN [st EXCEPT !.status = "FQLParseError"]
                      ELSE IF word = kAS THEN wordloop(words, i + 1, asclause(words, i, m))
                      ELSE IF word \in Verbs THEN wordloop(words, i + 1, verbclause(words, i, m))
                      ELSE IF word = kWITH THEN wordloop(words, i + 1, withclause(words, i, m))
                      ELSE wordloop(words, i + 1, m)
            ELSE IF st.mode = kIN
                 THEN IF ~HasSlash(word) THEN [st EXCEPT !.status = "FQLParseError"]
                      ELSE wordloop(words, i + 1,
                                    [st EXCEPT !.data = Select(@, DocKey(word))])
            ELSE IF st.mode = kFOR
                 THEN wordloop(words, i + 1,
                               [st EXCEPT !.edit = Put(@, "targets", Append(@.targets, word))])
            ELSE [st EXCEPT !.status = "FQLParseError"]

\* parsequery, lines 485-500: the checks after the loop and the filing of
\* the edit under every document of data
fileedit(st) ==
    LET edit == st.edit
        filed == [order |-> st.data.order,
                  edits |-> [k \in DOMAIN st.data.edits |-> Append(st.data.edits[k], edit)]]
    IN  IF st.status # "ok" THEN [status |-> st.status, data |-> st.data]
        ELSE IF st.data.order = <<>>
             THEN [status |-> "FQLParseError", data |-> st.data]
        ELSE IF "action" \notin DOMAIN edit
             THEN [status |-> "FQLParseError", data |-> st.data]
        ELSE IF edit.targets = <<>> /\ "id" \notin DOMAIN edit.actor
             THEN [status |-> "FQLParseError", data |-> st.data]
        ELSE IF "type" \notin DOMAIN edit.actor \/ edit.actor["type"] = <<>>
             THEN [status |-> "FQLParseError", data |-> st.data]
        ELSE [status |-> "ok", data |-> filed]

\* the start of a parse that does not take over the data of the request
StartStateFresh(olddata) ==
    [status |-> "ok", mode |-> <<>>, skipwords |-> 0,
     edit |-> NewEdit, data |-> NoData]

\* the state the loop over the words starts in
StartState(olddata) ==
    [status |-> "ok", mode |-> <<>>, skipwords |-> 0,
     edit |-> NewEdit, data |-> olddata]

\* parsequery that lets a statement without IN inherit the documents
\* selected so far
parsequeryInherit(query, olddata) ==
    LET words == tokenize(query)
        st0 == StartState(olddata)
    IN  IF olddata.order # <<>> /\ words # <<>> /\ words[1] # kIN
        THEN fileedit(wordloop(words, 0, [st0 EXCEPT !.mode = kIN]))
        ELSE fileedit(wordloop(words, 0, st0))

\* parsequery: status and data; data is changed in place, so the documents
\* a failing statement selected before it failed stay selected
parsequery(query, olddata) ==
    fileedit(wordloop(tokenize(query), 0, StartState(olddata)))

----------------------------------------------------------------------------
(* Requests *)

IdLists == UNION {[1..n -> ElementIds] : n \in 0..MaxIds}

Item(key, kind, ids) == [key |-> key, kind |-> kind, ids |-> ids]

\* what doannotation can do on one selected document
Items(key) ==
    {Item(key, "ok", ids) : ids \in IdLists}
        \cup {Item(key, kind, <<>>) : kind \in {"error", "fault"}}

\* The documents one request selects, each with its outcome.  The loop of
\* annotate ends at the first document of another namespace and at the
\* first document that fails, so only the last item is one of those.
RequestItems(keys) ==
    UNION {
        {q \in [1..n -> UNION {Items(k) : k \in keys \cup {ForeignKey}}] :
            /\ \A i, j \in 1..n : i # j => q[i].key # q[j].key
            /\ \A i \in 1..n : q[i].key = ForeignKey => q[i] = Item(ForeignKey, "ok", <<>>)
            /\ \A i \in 1..(n - 1) : q[i].kind = "ok" /\ q[i].key # ForeignKey}
        : n \in 0..MaxDocs}

\* One run addresses the documents and the (document, session) pairs of
\* one scope; in a scope that is not timed the clock stands still
Scopes ==
    {[keys |-> {D1}, clients |-> {<<D1, A>>, <<D1, B>>}, git |-> TRUE, timed |-> TRUE],
     [keys |-> {D1}, clients |-> {<<D1, A>>, <<D1, NOSID>>}, git |-> FALSE, timed |-> TRUE],
     [keys |-> {T1}, clients |-> {<<T1, A>>, <<T1, B>>}, git |-> TRUE, timed |-> TRUE],
     [keys |-> {D1, D2}, clients |-> {<<D1, A>>, <<D2, B>>}, git |-> TRUE, timed |-> FALSE]}

HasQueue(uq, k, s) == k \in DOMAIN uq /\ s \in DOMAIN uq[k]

\* the ids owed after a request by session sid with request key key that
\* committed commits and left the queue map uq
OwedAfter(key, sid, commits, uq) ==
    [k \in Keys |-> [s \in Sessions |->
        IF (k = key /\ s = sid) \/ (HasQueue(updateq, k, s) /\ ~HasQueue(uq, k, s))
        THEN {}
        ELSE owed[k][s] \cup
             UNION {Range(c.ids) : c \in {x \in commits :
                        x.key = k /\ s # sid /\ HasQueue(updateq, k, s)}}]]

NoKey == <<"", "">>
NoSession == <<>>

Respond(S, key, sid, commits) ==
    /\ data' = S.data
    /\ unsaved' = S.unsaved
    /\ lastchange' = S.lastchange
    /\ files' = S.files
    /\ updateq' = S.updateq
    /\ lastaccess' = S.lastaccess
    /\ owed' = OwedAfter(key, sid, commits, S.updateq)
    /\ UNCHANGED <<now, git, scope, parservars, threadvars, applyvars>>

QueuesBounded(S) ==
    \A k \in DOMAIN S.updateq : \A s \in DOMAIN S.updateq[k] :
        Len(S.updateq[k][s]) <= MaxQueue

----------------------------------------------------------------------------
(* Actions *)

Tick ==
    /\ scope.timed
    /\ now < MaxTicks * SessionTimeout
    /\ now' = now + SessionTimeout
    /\ UNCHANGED <<git, files, data, unsaved, lastchange, updateq, lastaccess,
                   owed, scope, parservars, threadvars, applyvars>>

GetDoc ==
    \E c \in scope.clients :
        Respond(getdoc(Server, c[1], c[2], now).S, c[1], c[2], {})

Annotate ==
    \E c \in scope.clients, items \in RequestItems(scope.keys) :
        LET r == annotate(Server, c[1], c[2], items, now)
        IN  /\ QueuesBounded(r.S)
            /\ Respond(r.S, c[1], c[2], r.commits)

GetElement ==
    \E c \in scope.clients, e \in ElementIds \cup {RootId} :
        Respond(getelements(Server, c[1], <<e>>, c[2], now).S, c[1], c[2], {})

Poll ==
    \E c \in scope.clients :
        Respond(poll(Server, c[1], c[2], now).S, c[1], c[2], {})

Declare ==
    \E c \in scope.clients, known \in BOOLEAN :
        Respond(declare(Server, c[1], c[2], known, now).S, c[1], c[2], {})

Revert ==
    \E key \in scope.keys, valid \in BOOLEAN :
        Respond(revert(Server, key, valid, git, now).S, NoKey, NoSession, {})

Upload ==
    \E key \in scope.keys, valid \in BOOLEAN :
        Respond(upload(Server, key, valid, now).S, NoKey, NoSession, {})

Orders(keys) ==
    {q \in [1..Cardinality(keys) -> keys] : Range(q) = keys}

AutoUnload ==
    \E dosave \in BOOLEAN, order \in Orders(autounloadkeys(Server, now)) :
        Respond(autounloadloop(Server, order, dosave, now).S, NoKey, NoSession, {})

\* no annotate request is being parsed
ParserIdle == queries = <<>> /\ pdata = NoData /\ pstatus = "ok"

\* no batch of edits is being applied
ApplyIdle == doc = <<>> /\ response = <<>>

\* no request thread is running
ThreadsIdle ==
    /\ pc = <<>> /\ loc = <<>> /\ docs = <<>> /\ resident = 0
    /\ disk = <<>> /\ lists = <<>> /\ qlist = 0 /\ got = {}

Init ==
    /\ ParserIdle
    /\ ThreadsIdle
    /\ ApplyIdle
    /\ scope \in Scopes
    /\ now = 0
    /\ git = scope.git
    /\ files = {D1, TestKey}
    /\ data = {}
    /\ unsaved = {}
    /\ lastchange = EmptyMap
    /\ updateq = EmptyMap
    /\ lastaccess = EmptyMap
    /\ owed = [k \in Keys |-> [s \in Sessions |-> {}]]

Next ==
    \/ Tick
    \/ GetDoc
    \/ Annotate
    \/ GetElement
    \/ Poll
    \/ Declare
    \/ Revert
    \/ Upload
    \/ AutoUnload

Spec == Init /\ [][Next]_vars

----------------------------------------------------------------------------
(* The parsing of one annotate request, Root.annotate lines 1090-1099: the  *)
(* statements are parsed in order into one data; the first exception ends   *)
(* the loop.                                                                *)

MaxStatements == 2   \* a request holds at most this many statements
MaxTargets == 2      \* a FOR clause written out holds at most this many targets

RECURSIVE Join(_)
Join(ws) ==
    IF ws = <<>> THEN <<>>
    ELSE IF Len(ws) = 1 THEN ws[1]
    ELSE ws[1] \o <<SP>> \o Join(Tail(ws))

nsd1 == <<"ns", SL, "d1">>
nsd2 == <<"ns", SL, "d2">>
ParsedD1 == <<W("ns"), W("d1")>>
ParsedD2 == <<W("ns"), W("d2")>>

InParts == {<<>>, <<kIN, nsd1>>, <<kIN, nsd1, nsd2>>, <<kIN, W("d1")>>}
AsParts == {<<>>, <<kAS, kALTERNATIVE>>,
            <<kAS, kCORRECTION, kOF, W("cs"), kWITH, W("class"), W("X"), kCOMMA>>}
VerbParts == {<<>>, <<kADD, W("pos")>>, <<kADD, W("pos"), kOF, W("set")>>,
              <<kADD, W("noun")>>, <<kEDIT, W("lemma"), kID, W("x")>>,
              <<kDELETE, W("pos"), kID, W("x")>>}
WithParts == {<<>>, <<kWITH, W("class"), W("NN")>>,
              <<kWITH, W("CLASS"), W("NN"), W("confidence"), W("high")>>}
Targets == {[i \in 1..n |-> IF i = 1 THEN W("w1") ELSE W("w2")] : n \in 1..MaxTargets}
ForParts == {<<>>} \cup {<<kFOR>> \o t : t \in Targets}
TailParts == {<<>>, <<kAS, kALTERNATIVE>>}

\* the statements written in full, as lists of words
Written ==
    {i \o a \o v \o w \o f \o t :
        i \in InParts, a \in AsParts, v \in VerbParts, w \in WithParts,
        f \in ForParts, t \in TailParts}

\* the statements a client sends: the written ones, whole or cut off after
\* any word, and some with a quoted text or a doubled blank
Statements ==
    UNION {{Join(SubSeq(ws, 1, n)) : n \in 0..Len(ws)} : ws \in Written}
        \cup {Join(<<kIN, nsd1, kEDIT, W("pos"), kWITH, W("text")>>)
                    \o <<SP, QT, "a", SP, "b", QT, SP>> \o Join(<<kFOR, W("w1")>>),
              Join(<<kIN, nsd1>>) \o <<SP, SP>> \o Join(<<kADD, W("pos"), kFOR, W("w1")>>),
              <<QT>> \o Join(<<kIN, nsd1, kADD, W("pos"), kFOR, W("w1")>>),
              Join(<<kIN, nsd1, kADD, W("pos"), kOF, W("set"), kWITH,
                     W("class=NN"), kFOR, W("w1")>>),
              Join(<<kIN, nsd1, kAS, kCORRECTION, kOF, W("cs"), kADD, W("pos"),
                     kFOR, W("w1")>>),
              Join(<<kIN, nsd1, kAS, kCORRECTION, W("cs")>>),
              Join(<<kIN, nsd1, kADD, W("pos"), kFOR, W("w1"), kAS, kCORRECTION,
                     kOF, W("cs"), kWITH, W("class"), W("X")>>),
              Join(<<kIN, nsd1, kEDIT, W("pos"), kWITH, W("confidence"),
                     W("0.5"), kFOR, W("w1")>>),
              Join(<<kIN, kADD, W("pos"), kFOR, W("w1")>>)}

\* the statements that come before the last one of a request
Leading == {Join(<<kIN, nsd2, kEDIT, W("pos"), kFOR, W("w2")>>)}

Requests ==
    UNION {{l \o <<q>> : l \in [1..(n - 1) -> Leading], q \in Statements} :
                n \in 1..MaxStatements}

ParseQuery ==
    /\ queries # <<>>
    /\ pstatus = "ok"
    /\ LET r == parsequery(Head(queries), pdata)
       IN  /\ pdata' = r.data
           /\ pstatus' = r.status
    /\ queries' = Tail(queries)
    /\ UNCHANGED <<storevars, threadvars, applyvars>>

ParseInit ==
    /\ ThreadsIdle
    /\ ApplyIdle
    /\ queries \in Requests
    /\ pdata = NoData
    /\ pstatus = "ok"
    /\ scope = CHOOSE sc \in Scopes : sc.keys = {D1, D2}
    /\ now = 0
    /\ git = scope.git
    /\ files = {D1, TestKey}
    /\ data = {}
    /\ unsaved = {}
    /\ lastchange = EmptyMap
    /\ updateq = EmptyMap
    /\ lastaccess = EmptyMap
    /\ owed = [k \in Keys |-> [s \in Sessions |-> {}]]

ParseNext == ParseQuery

ParseSpec == ParseInit /\ [][ParseNext]_vars

----------------------------------------------------------------------------
(* Properties.  A claim about a handler is stated of every request the     *)
(* handler can get in every reachable state: the handler's function is     *)
(* applied to the state and its response and new state are examined.       *)

Clients == scope.clients

\* the session's last access is more than 12 hours before t
Stale(S, k, s, t) ==
    HasQueue(S.lastaccess, k, s) /\ t - S.lastaccess[k][s] > SessionTimeout

Count(q, e) == Cardinality({i \in DOMAIN q : q[i] = e})

\* q2 is q1 with some elements taken out
Shrunk(q1, q2) ==
    /\ Len(q2) <= Len(q1)
    /\ \A e \in Range(q1) \cup Range(q2) : Count(q2, e) <= Count(q1, e)

Known(k, s) == HasQueue(updateq, k, s)

NotTest(k) == k[1] # "testflat"

\* what annotate does for the sessions of the documents it commits:
\* every other session's queue gets the ids appended, the committing
\* session's own queue gains nothing, and its poll right after a commit made
\* with an empty queue returns nothing
CommitQueues ==
    \A c \in Clients, items \in RequestItems(scope.keys) :
        LET a == c[2]
            r == annotate(Server, c[1], a, items, now)
        IN  \A x \in r.commits :
                /\ \A b \in Sessions \ {a} :
                        Known(x.key, b) =>
                            /\ HasQueue(r.S.updateq, x.key, b)
                            /\ r.S.updateq[x.key][b] = updateq[x.key][b] \o x.ids
                /\ Known(x.key, a) =>
                        /\ HasQueue(r.S.updateq, x.key, a)
                        /\ Shrunk(updateq[x.key][a], r.S.updateq[x.key][a])
                        /\ updateq[x.key][a] = <<>> =>
                                poll(r.S, x.key, a, now).ids = <<>>

Drains(k, s) ==
    LET r == poll(Server, k, s, now)
    IN  /\ r.ids = updateq[k][s]
        /\ r.status = (IF updateq[k][s] = <<>> THEN "empty" ELSE "ok")
        /\ HasQueue(r.S.updateq, k, s)
        /\ r.S.updateq[k][s] = <<>>
        /\ poll(r.S, k, s, now).ids = <<>>

C3_PollRefreshesTimestamp ==
    \A c \in Clients :
        (Known(c[1], c[2]) /\ ~IsNoSid(c[2]) /\ NotTest(c[1])
                /\ ~Stale(Server, c[1], c[2], now))
            => LET r == poll(Server, c[1], c[2], now)
               IN  /\ HasQueue(r.S.lastaccess, c[1], c[2])
                   /\ r.S.lastaccess[c[1]][c[2]] = now

\* C4: poll(K,sid) for a session without a tracker record on K returns an
\* empty result and creates no last-access entry and no pending-queue entry,
\* neither for sid nor for K.
C4_PollUnknownLeavesTracker ==
    \A c \in Clients :
        (~Known(c[1], c[2]) /\ ~HasQueue(lastaccess, c[1], c[2]))
            => LET r == poll(Server, c[1], c[2], now)
               IN  /\ r.status = "empty" /\ r.ids = <<>>
                   /\ ~HasQueue(r.S.updateq, c[1], c[2])
                   /\ ~HasQueue(r.S.lastaccess, c[1], c[2])
                   /\ c[1] \in DOMAIN r.S.updateq => c[1] \in DOMAIN updateq
                   /\ c[1] \in DOMAIN r.S.lastaccess => c[1] \in DOMAIN lastaccess

\* C5: neither the last-access map nor the pending-queue map ever holds a
\* record keyed by the sentinel session id.
C5_NoSentinelRecord ==
    /\ \A k \in DOMAIN lastaccess : \A s \in DOMAIN lastaccess[k] : ~IsNoSid(s)
    /\ \A k \in DOMAIN updateq : \A s \in DOMAIN updateq[k] : ~IsNoSid(s)

\* C6: the first getdoc(K,sid) of a non-sentinel session without a record
\* creates the record of (K,sid): an empty pending queue and a last-access
\* timestamp equal to the current time.
C6_FirstAccessCreatesRecord ==
    \A c \in Clients :
        (~IsNoSid(c[2]) /\ ~Known(c[1], c[2]) /\ ~HasQueue(lastaccess, c[1], c[2]))
            => LET r == getdoc(Server, c[1], c[2], now)
               IN  /\ HasQueue(r.S.updateq, c[1], c[2])
                   /\ r.S.updateq[c[1]][c[2]] = <<>>
                   /\ HasQueue(r.S.lastaccess, c[1], c[2])
                   /\ r.S.lastaccess[c[1]][c[2]] = now

C6_Witness ==
    \E c \in Clients :
        /\ ~IsNoSid(c[2]) /\ ~Known(c[1], c[2]) /\ ~HasQueue(lastaccess, c[1], c[2])
        /\ now > 0
        /\ c[1] \in DOMAIN updateq
        /\ getdoc(Server, c[1], c[2], now).S.lastaccess[c[1]][c[2]] = now

\* the session records of more than 12 hours ago
Old(S, t) ==
    {ks \in UNION {{<<k, s>> : s \in DOMAIN S.lastaccess[k]} : k \in DOMAIN S.lastaccess} :
        t - S.lastaccess[ks[1]][ks[2]] > SessionTimeout}

\* C7: after a session sweep every session record whose last-access
\* timestamp is older than 12 hours is absent from both tracker maps, and a
\* document key whose session map became empty is removed.
C7_SweepRemovesOldSessions ==
    LET S2 == checkexpireconcurrency(Server, now)
    IN  /\ \A ks \in Old(Server, now) :
                /\ ~HasQueue(S2.lastaccess, ks[1], ks[2])
                /\ ~HasQueue(S2.updateq, ks[1], ks[2])
        /\ \A k \in DOMAIN S2.lastaccess :
                DOMAIN S2.lastaccess[k] = {} => DOMAIN lastaccess[k] = {}
        /\ \A k \in DOMAIN S2.updateq :
                DOMAIN S2.updateq[k] = {} => DOMAIN updateq[k] = {}

\* unload is applicable: the key is resident and its save does not raise
CanUnload(k) == k \in data /\ CanLoad(Server, k)

C9_SaveRefreshesLastChange ==
    \A k \in scope.keys :
        (StoreKey(k) \in data /\ StoreKey(k) \in DOMAIN lastchange) =>
            LET S2 == save(Server, k, now)
            IN  /\ StoreKey(k) \in DOMAIN S2.lastchange
                /\ S2.lastchange[StoreKey(k)] = now

\* C10: autounload evicts every resident document whose last-change
\* timestamp is older than the idle threshold and keeps every document
\* changed more recently.
C10_AutoUnloadEvictsIdle ==
    \A dosave \in BOOLEAN, order \in Orders(autounloadkeys(Server, now)) :
        LET S2 == autounloadloop(Server, order, dosave, now).S
        IN  \A k \in data \cap DOMAIN lastchange :
                IF now - lastchange[k] > expiretime
                THEN k \notin S2.data
                ELSE k \in S2.data

\* C11: unload(K,save) of a resident key, loaded by get or installed by put,
\* succeeds and removes the document and its last-change entry (saving first
\* when save is true); on a key that is not resident it fails with
\* NoSuchDocument and changes nothing.
C11_UnloadRemovesResident ==
    \A k \in scope.keys, dosave \in BOOLEAN :
        LET r == unloadcall(Server, k, dosave, now)
        IN  IF k \in data
            THEN /\ r.status = "ok"
                 /\ k \notin r.S.data
                 /\ k \notin DOMAIN r.S.lastchange
                 /\ dosave => (k \in r.S.files /\ k \notin r.S.unsaved)
            ELSE r.status = "NoSuchDocument" /\ r.S = Server

\* C12: get(K) on a key that is not resident and has no stored file fails
\* with NoSuchDocument and leaves the store unchanged; the same holds of the
\* store when getdoc makes that get.
C12_GetMissingLeavesStore ==
    \A k \in scope.keys :
        (StoreKey(k) \notin data /\ StoreKey(k) \notin files) =>
            LET r == getitem(Server, k, now)
            IN  /\ r.status = "NoSuchDocument"
                /\ r.S = Server
                /\ \A c \in Clients : c[1] = k =>
                        LET g == getdoc(Server, k, c[2], now)
                        IN  /\ g.status = "404"
                            /\ g.S.data = data /\ g.S.lastchange = lastchange
                            /\ g.S.files = files /\ g.S.unsaved = unsaved

C12_Witness ==
    \E k \in scope.keys :
        /\ StoreKey(k) \notin data /\ StoreKey(k) \notin files
        /\ data # {} /\ lastchange # EmptyMap
        /\ getitem(Server, k, now).status = "NoSuchDocument"
        /\ getitem(Server, k, now).S = Server


----------------------------------------------------------------------------
(* Properties of the parser, stated of the statement that is parsed next *)

Pending == queries # <<>> /\ pstatus = "ok"
NextWords == tokenize(Head(queries))
Parsed == parsequery(Head(queries), pdata)

\* a word that writes a field and its value as one, field=value
Assigned == [w \in {W("class=NN")} |-> [field |-> "class", value |-> W("NN")]]

\* the words up to the WITH of "IN ns/doc ADD type OF set WITH"
AddOfWith(ws) ==
    /\ Len(ws) >= 7
    /\ ws[1] = kIN /\ HasSlash(ws[2])
    /\ ws[3] = kADD /\ ws[4] \in XML2CLASS
    /\ ws[5] = kOF /\ ws[6] \notin Keywords /\ ws[6] # <<>>
    /\ ws[7] = kWITH

\* the instruction of C16 for the words ws, class value v and target t
AddInstruction(ws, v, t) ==
    [editform |-> "new", targets |-> <<t>>,
     actor |-> [type |-> ws[4], set |-> ws[6]],
     assignments |-> [class |-> v], action |-> "add"]

\* the parse filed exactly e under the selected document: as the only
\* instruction of the only document when the request had no data yet
FiledOnly(ws, e) ==
    /\ Parsed.status = "ok"
    /\ DocKey(ws[2]) \in DOMAIN Parsed.data.edits
    /\ Parsed.data.edits[DocKey(ws[2])] # <<>>
    /\ Parsed.data.edits[DocKey(ws[2])][Len(Parsed.data.edits[DocKey(ws[2])])] = e
    /\ pdata = NoData =>
            /\ Parsed.data.order = <<DocKey(ws[2])>>
            /\ Parsed.data.edits[DocKey(ws[2])] = <<e>>

C17_MustStartWithIn ==
    (Pending /\ NextWords # <<>> /\ NextWords[1] # kIN)
        => Parsed.status = "FQLParseError"

C17_Witness ==
    /\ Pending /\ pdata.order # <<>>
    /\ Len(NextWords) > 3 /\ NextWords[1] \in Verbs /\ NextWords[2] \in XML2CLASS
    /\ Parsed.status = "FQLParseError"

\* C18: for every statement parsequery either returns the edits by document
\* or fails with FQLParseError; it fails with no other kind of error.
C18_OnlySyntaxErrors ==
    Pending => Parsed.status \in {"ok", "FQLParseError"}

\* the statement has a verb at word i
VerbAt(ws, i) == i \in DOMAIN ws /\ ws[i] \in Verbs
HasVerb(ws) == \E i \in DOMAIN ws : VerbAt(ws, i)
\* an AS clause begins after the verb
AsAfterVerb(ws) == \E i, j \in DOMAIN ws : VerbAt(ws, i) /\ i < j /\ ws[j] = kAS
\* the instruction the statement files
Instruction ==
    LET k == Parsed.data.order[1]
    IN  Parsed.data.edits[k][Len(Parsed.data.edits[k])]

\* C19 as claimed: every statement whose action verb is ADD yields an
\* instruction with edit-form new.
C19_AsClaimed ==
    (Pending /\ Parsed.status = "ok" /\ Instruction.action = "add")
        => Instruction.editform = "new"

\* C19 amended: every statement whose action verb is ADD and that has no AS
\* clause after the verb yields an instruction with edit-form new, also when
\* an AS CORRECTION OF or AS ALTERNATIVE clause precedes the verb; an AS
\* clause after the verb decides the edit-form instead.
C19_AddForcesNew ==
    (Pending /\ Parsed.status = "ok" /\ Instruction.action = "add")
        => IF AsAfterVerb(NextWords)
           THEN Instruction.editform \in {"correction", "alternative"}
           ELSE Instruction.editform = "new"

C19_Witness ==
    /\ queries = <<>> /\ pstatus = "ok"
    /\ pdata.order = <<ParsedD1>>
    /\ LET e == pdata.edits[ParsedD1][1]
       IN  /\ e.action = "add"
           /\ "correctionset" \in DOMAIN e
           /\ "correctionclass" \in DOMAIN e
           /\ e.editform = "new"

\* the statement names an annotation type that is not known
UnknownType(ws) ==
    \E i \in DOMAIN ws : VerbAt(ws, i) /\ i < Len(ws) /\ ws[i + 1] \notin XML2CLASS
\* the statement gives its actor an explicit id
ActorId(ws) ==
    \E i \in DOMAIN ws : VerbAt(ws, i) /\ i + 3 <= Len(ws) /\ ws[i + 2] = kID
\* the statement has a FOR clause with a target
HasTargets(ws) ==
    \E i \in DOMAIN ws : ws[i] = kFOR /\ i < Len(ws) /\ ws[i + 1] \notin Keywords

\* C20: parsing fails with FQLParseError when the statement names an unknown
\* annotation type, when it has no action verb, and when it has neither
\* targets nor an explicit actor id; a statement without FOR is accepted only
\* when its actor carries an explicit id.
C20_ValidationFailures ==
    Pending =>
        LET ws == NextWords
        IN  /\ (UnknownType(ws) \/ ~HasVerb(ws) \/ (~HasTargets(ws) /\ ~ActorId(ws)))
                    => Parsed.status = "FQLParseError"
            /\ (Parsed.status = "ok" /\ ~HasTargets(ws))
                    => "id" \in DOMAIN Instruction.actor

----------------------------------------------------------------------------
(* Concurrent requests.  cherrypy.quickstart serves requests from a pool of *)
(* threads and the code takes no lock, so the statements of two handlers    *)
(* interleave.  Two requests on one document K are followed statement by    *)
(* statement: the first get of annotate in the steps of DocStore.load, the  *)
(* enqueue in its two steps (subscript, append); every other step is one    *)
(* or more whole statements.  Time stamps are left out.  B is the one       *)
(* session with a pending queue on K; the annotate requests come from other *)
(* sessions, and thread t reports the element id t.                         *)

MaxEdits == 2     \* the edits of one annotate batch
Threads == {1, 2}

\* the requests the two threads serve
Scenarios == {<<"annotate", "annotate">>, <<"annotate", "revert">>,
              <<"annotate", "poll">>}

FirstLabel(op) ==
    CASE op = "annotate" -> "load_check"
      [] op = "poll" -> "poll_read"
      [] op = "revert" -> "revert_check"

\* doc: the Document the thread holds; made: the one it constructed;
\* n: the edits it applied; ref: the list it holds
NewLocal(op) == [op |-> op, doc |-> 0, made |-> 0, n |-> 0, ref |-> 0]

At_(t, label) == pc[t] = label

Goto(t, label) == pc' = [pc EXCEPT ![t] = label]

\* DocStore.load, line 81: "if not key in self"
LoadCheck ==
    \E t \in Threads :
        /\ At_(t, "load_check")
        /\ Goto(t, IF resident # 0 THEN "get" ELSE "load_read")
        /\ UNCHANGED <<loc, docs, resident, disk, lists, qlist, got, storevars, parservars, applyvars>>

\* DocStore.load, line 86, right-hand side: folia.Document(file=filename)
LoadRead ==
    \E t \in Threads :
        /\ At_(t, "load_read")
        /\ docs' = Append(docs, disk)
        /\ loc' = [loc EXCEPT ![t].made = Len(docs) + 1]
        /\ Goto(t, "load_store")
        /\ UNCHANGED <<resident, disk, lists, qlist, got, storevars, parservars, applyvars>>

\* DocStore.load, line 86, the assignment to self.data[key]
LoadStore ==
    \E t \in Threads :
        /\ At_(t, "load_store")
        /\ resident' = loc[t].made
        /\ Goto(t, "get")
        /\ UNCHANGED <<loc, docs, disk, lists, qlist, got, storevars, parservars, applyvars>>

\* DocStore.__getitem__, line 124: "return self.data[key]" (KeyError when an
\* unload came between); Root.annotate, line 1111, binds it to doc
GetDocument ==
    \E t \in Threads :
        /\ At_(t, "get")
        /\ IF resident = 0
           THEN Goto(t, "failed") /\ UNCHANGED loc
           ELSE /\ loc' = [loc EXCEPT ![t].doc = resident]
                /\ Goto(t, "edit")
        /\ UNCHANGED <<docs, resident, disk, lists, qlist, got, storevars, parservars, applyvars>>

\* doannotation, line 1115: one edit of the batch is applied to doc
ApplyEdit ==
    \E t \in Threads :
        /\ At_(t, "edit")
        /\ docs' = [docs EXCEPT ![loc[t].doc] = Append(@, <<t, loc[t].n + 1>>)]
        /\ loc' = [loc EXCEPT ![t].n = @ + 1]
        /\ Goto(t, IF loc[t].n + 1 = MaxEdits THEN "save_get" ELSE "edit")
        /\ UNCHANGED <<resident, disk, lists, qlist, got, storevars, parservars, applyvars>>

\* the object self[key] gives, and the objects after it: the resident one,
\* or one loaded from the file
Fetched == IF resident # 0 THEN resident ELSE Len(docs) + 1
Fetch ==
    /\ docs' = IF resident # 0 THEN docs ELSE Append(docs, disk)
    /\ resident' = Fetched

\* DocStore.save, line 93: "doc = self[key]"
SaveGet ==
    \E t \in Threads :
        /\ At_(t, "save_get")
        /\ Fetch
        /\ loc' = [loc EXCEPT ![t].made = Fetched]
        /\ Goto(t, "save_write")
        /\ UNCHANGED <<disk, lists, qlist, got, storevars, parservars, applyvars>>

\* DocStore.save, line 100: "doc.save()"
SaveWrite ==
    \E t \in Threads :
        /\ At_(t, "save_write")
        /\ disk' = docs[loc[t].made]
        /\ Goto(t, "enq_get")
        /\ UNCHANGED <<loc, docs, resident, lists, qlist, got, storevars, parservars, applyvars>>

\* Root.annotate, line 1154: the subscripts self.docstore.updateq[key][s]
EnqueueGet ==
    \E t \in Threads :
        /\ At_(t, "enq_get")
        /\ loc' = [loc EXCEPT ![t].ref = qlist]
        /\ Goto(t, "enq_append")
        /\ UNCHANGED <<docs, resident, disk, lists, qlist, got, storevars, parservars, applyvars>>

\* Root.annotate, line 1154: ".append(eid)"
EnqueueAppend ==
    \E t \in Threads :
        /\ At_(t, "enq_append")
        /\ lists' = [lists EXCEPT ![loc[t].ref] = Append(@, t)]
        /\ Goto(t, "reply")
        /\ UNCHANGED <<loc, docs, resident, disk, qlist, got, storevars, parservars, applyvars>>

\* Root.annotate, lines 1156-1164: getelements reads the document for the
\* response
Reply ==
    \E t \in Threads :
        /\ At_(t, "reply")
        /\ Fetch
        /\ Goto(t, "done")
        /\ UNCHANGED <<loc, disk, lists, qlist, got, storevars, parservars, applyvars>>

\* Root.poll, line 1232: "ids = self.docstore.updateq[key][sid]"
PollRead ==
    \E t \in Threads :
        /\ At_(t, "poll_read")
        /\ loc' = [loc EXCEPT ![t].ref = qlist]
        /\ Goto(t, "poll_reset")
        /\ UNCHANGED <<docs, resident, disk, lists, qlist, got, storevars, parservars, applyvars>>

\* Root.poll, line 1233: "self.docstore.updateq[key][sid] = []"
PollReset ==
    \E t \in Threads :
        /\ At_(t, "poll_reset")
        /\ lists' = Append(lists, <<>>)
        /\ qlist' = Len(lists) + 1
        /\ Goto(t, "poll_return")
        /\ UNCHANGED <<loc, docs, resident, disk, got, storevars, parservars, applyvars>>

RECURSIVE RemoveAll(_, _)
RemoveAll(q, ids) ==
    IF ids = <<>> THEN q ELSE RemoveAll(ListRemove(q, Head(ids)), Tail(ids))

\* Root.poll, lines 1234-1236: getelements over ids, which takes each id off
\* the session's queue and reads the document
PollReturn ==
    \E t \in Threads :
        /\ At_(t, "poll_return")
        /\ LET ids == lists[loc[t].ref]
           IN  /\ got' = got \cup Range(ids)
               /\ lists' = [lists EXCEPT ![qlist] = RemoveAll(@, ids)]
               /\ IF ids # <<>> THEN Fetch ELSE UNCHANGED <<docs, resident>>
        /\ Goto(t, "done")
        /\ UNCHANGED <<loc, disk, qlist, storevars, parservars, applyvars>>

\* Root.revert, line 1060: "if (namespace,docid) in self.docstore"; without
\* the document the handler fails on the name key
RevertCheck ==
    \E t \in Threads :
        /\ At_(t, "revert_check")
        /\ Goto(t, IF resident # 0 THEN "unload_save" ELSE "failed")
        /\ UNCHANGED <<loc, docs, resident, disk, lists, qlist, got, storevars, parservars, applyvars>>

\* DocStore.unload, lines 110-112: the test and the save
UnloadSave ==
    \E t \in Threads :
        /\ At_(t, "unload_save")
        /\ IF resident = 0
           THEN Goto(t, "failed") /\ UNCHANGED disk
           ELSE disk' = docs[resident] /\ Goto(t, "unload_del")
        /\ UNCHANGED <<loc, docs, resident, lists, qlist, got, storevars, parservars, applyvars>>

\* DocStore.unload, line 114: "del self.data[key]"; the checkout of revert
\* is of the revision just committed
UnloadDel ==
    \E t \in Threads :
        /\ At_(t, "unload_del")
        /\ IF resident = 0
           THEN Goto(t, "failed") /\ UNCHANGED resident
           ELSE resident' = 0 /\ Goto(t, "done")
        /\ UNCHANGED <<loc, docs, disk, lists, qlist, got, storevars, parservars, applyvars>>

ThreadInit ==
    /\ ParserIdle
    /\ ApplyIdle
    /\ scope = CHOOSE sc \in Scopes : sc.keys = {D1, D2}
    /\ now = 0
    /\ git = scope.git
    /\ files = {D1, TestKey}
    /\ data = {}
    /\ unsaved = {}
    /\ lastchange = EmptyMap
    /\ updateq = EmptyMap
    /\ lastaccess = EmptyMap
    /\ owed = [k \in Keys |-> [s \in Sessions |-> {}]]
    /\ \E ops \in Scenarios :
            /\ loc = [t \in Threads |-> NewLocal(ops[t])]
            /\ pc = [t \in Threads |-> FirstLabel(ops[t])]
    /\ disk = <<>>
    /\ \E loaded \in BOOLEAN :
            /\ resident = (IF loaded THEN 1 ELSE 0)
            /\ docs = (IF loaded THEN <<disk>> ELSE <<>>)
    /\ \E pending \in {<<>>, <<0>>} : lists = <<pending>>
    /\ qlist = 1
    /\ got = {}

ThreadNext ==
    \/ LoadCheck
    \/ LoadRead
    \/ LoadStore
    \/ GetDocument
    \/ ApplyEdit
    \/ SaveGet
    \/ SaveWrite
    \/ EnqueueGet
    \/ EnqueueAppend
    \/ Reply
    \/ PollRead
    \/ PollReset
    \/ PollReturn
    \/ RevertCheck
    \/ UnloadSave
    \/ UnloadDel

ThreadSpec == ThreadInit /\ [][ThreadNext]_vars

----------------------------------------------------------------------------
(* Properties of concurrent requests, under ThreadSpec.                     *)

Annotating == {t \in Threads : loc[t].op = "annotate"}

\* the edits of one thread are together in the content
Serial(content) ==
    \A i, j, k \in 1..Len(content) :
        (i < j /\ j < k /\ content[i][1] = content[k][1])
            => content[j][1] = content[i][1]

\* C13, first half: while two annotate requests on K are served and nothing
\* evicts K, no second Document object of K is made.
C13_OneInstance == (Annotating = Threads) => Len(docs) <= 1

\* C13, second half: in every Document object of K the edits of one batch
\* are together, not interleaved with those of the other batch.
C13_SerialBatches == \A d \in 1..Len(docs) : Serial(docs[d])

\* C13: under concurrently handled requests at most one Document object
\* exists per key, and the edit batches of two annotate requests on the same
\* key are applied serially, never interleaved.
C13_OneInstanceSerialEdits == C13_OneInstance /\ C13_SerialBatches

Reverting == {t \in Threads : loc[t].op = "revert"}

\* the edits thread t applied
Edits(t) == {<<t, n>> : n \in 1..loc[t].n}

\* C14, first half: between obtaining the document and saving it, the
\* object an annotate request edits is the resident one: the unload of a
\* revert has not removed it.
C14_NotEvictedBeforeSave ==
    \A t \in Annotating :
        (Reverting # {} /\ pc[t] \in {"edit", "save_get", "save_write"})
            => loc[t].doc = resident

\* C14, second half: once the annotate request has saved, the edits it
\* applied are in the file.
C14_EditsSaved ==
    \A t \in Annotating :
        (Reverting # {} /\ pc[t] \in {"enq_get", "enq_append", "reply", "done"})
            => Edits(t) \subseteq Range(disk)

\* C14: the eviction of K (here the unload done by revert) never takes
\* effect between the moment an annotate request on K obtains the document
\* and the moment it has saved it; no applied edit is lost by being made on
\* an evicted instance.
C14_NoEvictionDuringEdit == C14_NotEvictedBeforeSave /\ C14_EditsSaved

Polling == {t \in Threads : loc[t].op = "poll"}

\* the ids the running poll is about to return
Held == UNION {Range(lists[loc[t].ref]) : t \in {u \in Polling : pc[u] = "poll_return"}}

\* the ids enqueued for session B by the annotate requests
Enqueued == {t \in Annotating : pc[t] \in {"reply", "done"}}

\* C15: the drain of poll is atomic with respect to a concurrent annotate
\* that enqueues ids for the same session: every id enqueued for B is
\* returned by the running poll or still pending for B's next poll.
C15_NoEnqueuedIdLost ==
    (Polling # {}) => Enqueued \subseteq (got \cup Held \cup Range(lists[qlist]))

----------------------------------------------------------------------------
(* Properties of a batch of statements, under ParseSpec.                    *)

\* the statement parsed next names no document: it has no IN clause, or an
\* IN that a keyword follows at once
NoSelector(ws) ==
    \/ ws # <<>> /\ ws[1] # kIN
    \/ Len(ws) >= 2 /\ ws[1] = kIN /\ ws[2] \in Keywords

\* the same statement behind a selector, parsed as the first of a request
WithSelector == parsequery(Join(<<kIN, nsd1>>) \o <<SP>> \o Head(queries), NoData)

\* the parse filed the instruction e under the documents selected before,
\* and under no other
Inherited(e) ==
    /\ Parsed.status = "ok"
    /\ Parsed.data.order = pdata.order
    /\ \A k \in DOMAIN pdata.edits : Parsed.data.edits[k] = Append(pdata.edits[k], e)

----------------------------------------------------------------------------
(* The document tree doannotation edits.  A Document is the elements it     *)
(* holds, each under a key (its id; a layer, which has no id, under a key   *)
(* of its own), doc.index, doc.annotations and the counters ids are         *)
(* generated from.  The methods of the element classes are the library's    *)
(* (pynlpl.formats.folia); they are modelled by what the calls in           *)
(* doannotation take them to do and by what test() expects of them.         *)

None == <<>>     \* no id, no parent

\* keys: <<tag, n of the structure element the id was generated in, number>>
Pk == <<"p", 0, 1>>
Sk(n) == <<"s", 0, n>>
Wk(sn, n) == <<"w", sn, n>>
Ek(sn, n) == <<"entity", sn, n>>
Lk(sn, n) == <<"layer", sn, n>>
Ck(sn, n) == <<"correction", sn, n>>

Structure == {"p", "s", "w"}            \* AbstractStructureElement
TokenAnnotation == {"pos", "lemma"}     \* AbstractTokenAnnotation
SpanAnnotation == {"entity"}            \* AbstractSpanAnnotation
TextContent == {"t"}
KnownClass == Structure \cup TokenAnnotation \cup SpanAnnotation \cup TextContent

Element(kind, parent) ==
    [kind |-> kind, parent |-> parent, data |-> <<>>, set |-> "", cls |-> "",
     text |-> <<>>, space |-> TRUE, ann |-> <<>>, original |-> <<>>]

Word(parent, text, space) ==
    [Element("w", parent) EXCEPT !.text = text, !.space = space]

\* a token annotation of a word
Token(type, set, cls, alt) == [type |-> type, set |-> set, cls |-> cls, alt |-> alt]

\* id in doc
InDoc(d, id) == id \in d.index

\* the number an id generated in the element is made of
Owner(key) == IF key[1] = "s" THEN key[3] ELSE key[2]

\* element.ancestors(): the parents, nearest first
RECURSIVE ancestors(_, _)
ancestors(d, key) ==
    LET up == d.el[key].parent
    IN  IF up = None \/ up \notin DOMAIN d.el THEN <<>>
        ELSE <<up>> \o ancestors(d, up)

\* the ids of the ancestors that are structure elements (line 541)
StructureAncestors(d, key) ==
    SelectSeq(ancestors(d, key), LAMBDA a : d.el[a].kind \in Structure)

\* element.generate_id(Class): the next number of the tag in the element
generate_id(d, owner, tag) ==
    LET c == <<Owner(owner), tag>>
    IN  IF c \in DOMAIN d.maxid THEN d.maxid[c] + 1 ELSE 1

NewId(d, owner, tag) == <<tag, Owner(owner), generate_id(d, owner, tag)>>

Counted(d, owner, tag) ==
    [d EXCEPT !.maxid = Put(@, <<Owner(owner), tag>>, generate_id(d, owner, tag))]

\* parent.remove(child): out of the parent's data and out of the index
remove(d, parent, child) ==
    [d EXCEPT !.el[parent].data = ListRemove(@, child),
              !.index = @ \ {child}]

\* list.insert(i, x), i counted from 0
ListInsert(q, i, x) ==
    LET n == IF i > Len(q) THEN Len(q) ELSE i
    IN  SubSeq(q, 1, n) \o <<x>> \o SubSeq(q, n + 1, Len(q))

\* parent.insert(i, Class(doc, ..., generate_id_in=parent)): the new element
\* e gets the next id, enters the parent's data at i and the index
insert(d, parent, i, e) ==
    LET key == NewId(d, parent, e.kind)
        d1 == Counted(d, parent, e.kind)
    IN  [d1 EXCEPT !.el = Put(@, key, [e EXCEPT !.parent = parent]),
                   !.el[parent].data = ListInsert(@, i, key),
                   !.index = @ \cup {key}]

\* doc.declared(annotationtype, set)
docdeclared(d, type, set) == \E i \in DOMAIN d.annotations : d.annotations[i] = <<type, set>>

\* doc.declare(annotationtype, set)
docdeclare(d, type, set) == [d EXCEPT !.annotations = Append(@, <<type, set>>)]

\* str.split(' '): the pieces between the blanks, empty ones included
RECURSIVE split(_, _)
split(text, piece) ==
    IF text = <<>> THEN <<piece>>
    ELSE IF Head(text) = SP THEN <<piece>> \o split(Tail(text), <<>>)
    ELSE split(Tail(text), Append(piece, Head(text)))

\* span.wrefs(): the words the span refers to, those of nested spans included
RECURSIVE wrefs(_, _)
RECURSIVE wrefsOf(_, _)
wrefsOf(d, keys) ==
    IF keys = <<>> THEN <<>>
    ELSE LET k == Head(keys)
         IN  (IF k[1] = "w" THEN <<k>>
              ELSE IF k \in DOMAIN d.el THEN wrefs(d, k) ELSE <<>>)
                 \o wrefsOf(d, Tail(keys))
wrefs(d, key) == wrefsOf(d, d.el[key].data)

\* span.hasannotation(Class): a span of the class is nested in it
hasannotation(d, key, kind) ==
    \E i \in DOMAIN d.el[key].data :
        LET k == d.el[key].data[i]
        IN  k[1] # "w" /\ k \in DOMAIN d.el /\ d.el[k].kind = kind

\* folia.ANNOTATIONTYPE2LAYERCLASS
LayerClass == [type \in SpanAnnotation |-> "entities"]

\* element.layers(annotationtype, set): the layers of the type and set
\* directly under the element
layers(d, key, type, set) ==
    SelectSeq(d.el[key].data,
              LAMBDA k : k[1] = "layer" /\ d.el[k].kind = LayerClass[type]
                            /\ d.el[k].set = set)

----------------------------------------------------------------------------
(* doannotation(doc, data), lines 506-991.  The state of the loop over the  *)
(* edits: the document, the response (its log is left out), the local       *)
(* commonancestor, and how the call ends: "ok", "error" (a response with    *)
(* an error is returned) or "raised" (an exception leaves the function).    *)

Unbound == <<"unbound", 0, 0>>      \* a local that was never assigned
RootObject == <<"object", 0, 0>>    \* doc.data[0], an element where an id is meant

StartApply(d) ==
    [d |-> d, ids |-> <<>>, error |-> <<>>, status |-> "ok", exc |-> "",
     commonancestor |-> Unbound, p |-> Unbound, edit |-> <<>>]

Raise(st, exc) == [st EXCEPT !.status = "raised", !.exc = exc]
Fail(st, err) == [st EXCEPT !.status = "error", !.error = err]

\* "Target element " + targetid + " does not exist!"
NoTarget(st, targetid) == Fail(st, <<"Target element does not exist", targetid>>)

\* if not id in response['returnelementids']: append
AddIdTwice(st, id) == [st EXCEPT !.ids = Append(@, id)]
AddId(st, id) ==
    IF id \in Range(st.ids) THEN st ELSE [st EXCEPT !.ids = Append(@, id)]

\* lines 542-550: the ancestors common to all targets, in the order of the
\* first target's
RECURSIVE commonancestors(_, _, _, _)
commonancestors(d, targets, i, common) ==
    IF i > Len(targets) THEN [missing |-> None, common |-> common]
    ELSE IF ~InDoc(d, targets[i]) THEN [missing |-> targets[i], common |-> common]
    ELSE LET anc == StructureAncestors(d, targets[i])
         IN  commonancestors(d, targets, i + 1,
                IF i = 1 THEN anc
                ELSE SelectSeq(common, LAMBDA a : a \in Range(anc)))

\* lines 512-567: the targets are looked up and the element to return is
\* picked
FirstTargetMissing(st, e) == e.targets # <<>> /\ ~InDoc(st.d, e.targets[1])
looktargets(st, e) ==
    IF FirstTargetMissing(st, e) THEN Raise(st, "KeyError")
    ELSE IF e.actor["type"] \notin KnownClass THEN Raise(st, "KeyError")
    ELSE IF Len(e.targets) > 1
    THEN LET r == commonancestors(st.d, e.targets, 1, <<>>)
         IN  IF r.missing # None THEN NoTarget(st, r.missing)
             ELSE IF r.common # <<>>
                  THEN [AddId(st, r.common[1]) EXCEPT !.commonancestor = r.common[1]]
                  ELSE st
    ELSE IF Len(e.targets) = 1
    THEN LET anc == StructureAncestors(st.d, e.targets[1])
         IN  IF anc = <<>> THEN Raise(AddId(st, e.targets[1]), "NoSuchAnnotation")
             ELSE [AddId(st, e.targets[1]) EXCEPT !.commonancestor = anc[1]]
    ELSE [st EXCEPT !.commonancestor = RootObject]

\* lines 578-587: the sets the document declares for the type
DeclaredSets(d, type) ==
    SelectSeq(d.annotations, LAMBDA a : a[1] = type)

SetActor(st, e, set) == [st EXCEPT !.edit = [e EXCEPT !.actor = Put(@, "set", set)]]

\* lines 573-592: the set of the actor is resolved and declared
resolvesetExplicitLast(st, e) ==
    LET found == DeclaredSets(st.d, e.actor["type"])
    IN  IF found # <<>> THEN SetActor(st, e, found[1][2])
        ELSE IF "set" \in DOMAIN e.actor THEN SetActor(st, e, e.actor["set"])
        ELSE SetActor(st, e, "undefined")
resolveset(st, e) ==
    IF "set" \notin DOMAIN e.actor \/ e.actor["set"] = "null"
    THEN IF "id" \in DOMAIN e.actor /\ e.actor["id"] # None
         THEN IF InDoc(st.d, e.actor["id"])
              THEN SetActor(st, e, st.d.el[e.actor["id"]].set)
              ELSE Raise(st, "KeyError")
         ELSE LET found == DeclaredSets(st.d, e.actor["type"])
              IN  IF Len(found) > 1
                  THEN Fail(SetActor(st, e, found[2][2]), <<"ambiguous set", <<e.actor["type"], 0, 0>>>>)
                  ELSE IF Len(found) = 1 THEN SetActor(st, e, found[1][2])
                  ELSE SetActor(st, e, "undefined")
    ELSE [st EXCEPT !.edit = e]

declareset(st) ==
    LET type == st.edit.actor["type"]
        set == st.edit.actor["set"]
    IN  IF set # "undefined" /\ ~docdeclared(st.d, type, set)
        THEN [st EXCEPT !.d = docdeclare(@, type, set)]
        ELSE st

\* the structure element nearest above the element, where the ids of
\* corrections are generated
Above(d, key) == StructureAncestors(d, key)[1]

\* parent.correct(original=child, ...) and parent.deleteword(child, ...): a
\* new correction takes the child's place in the parent and holds the child
\* as its original (test, lines 1395, 1413)
correctoriginal(d, parent, child, set, cls) ==
    LET own == IF d.el[parent].kind \in Structure THEN parent ELSE Above(d, parent)
        cid == NewId(d, own, "correction")
        oid == <<"original", cid[2], cid[3]>>
        i == IndexOf(d.el[parent].data, child, 1)
        d1 == Counted(d, own, "correction")
        c == [Element("correction", parent) EXCEPT !.data = <<oid>>, !.set = set, !.cls = cls]
        o == [Element("original", cid) EXCEPT !.data = <<child>>]
    IN  [d1 EXCEPT !.el = [k \in DOMAIN d.el \cup {cid, oid} |->
                              IF k = cid THEN c
                              ELSE IF k = oid THEN o
                              ELSE IF k = child THEN [d.el[k] EXCEPT !.parent = oid]
                              ELSE IF k = parent
                                   THEN [d.el[k] EXCEPT !.data = [@ EXCEPT ![i] = cid]]
                              ELSE d.el[k]],
                   !.index = (@ \ {child}) \cup {cid}]

\* lines 609-614: the word before the target gets its space back
undospace(d, target) ==
    LET up == d.el[target].parent
        i == IndexOf(d.el[up].data, target, 1)
    IN  IF i > 1 /\ d.el[up].data[i - 1] \in DOMAIN d.el
             /\ d.el[d.el[up].data[i - 1]].kind = "w"
             /\ ~d.el[d.el[up].data[i - 1]].space
        THEN [d EXCEPT !.el[d.el[up].data[i - 1]].space = TRUE]
        ELSE d

\* the id of an element: its key, None for the elements without one
IdOf(key) == IF key[1] \in {"layer", "original"} THEN None ELSE key

\* lines 597-634: the element with the actor's id is deleted
deletebyidKeepSpace(st) ==
    LET e == st.edit
        target == e.actor["id"]
        up == st.d.el[target].parent
    IN  IF ~InDoc(st.d, target) THEN Raise(st, "KeyError")
        ELSE IF e.editform = "direct"
        THEN AddId([st EXCEPT !.d = remove(st.d, up, target), !.p = up], IdOf(up))
        ELSE Raise(st, "Exception")
deletebyid(st) ==
    LET e == st.edit
        target == e.actor["id"]
        up == st.d.el[target].parent
        d1 == undospace(st.d, target)
    IN  IF ~InDoc(st.d, target) THEN Raise(st, "KeyError")
        ELSE IF e.editform = "correction" /\ "correctionclass" \notin DOMAIN e
             THEN Raise(st, "KeyError")
        ELSE IF e.editform \notin {"direct", "correction"} THEN Raise(st, "Exception")
        ELSE IF up = None THEN Raise(st, "AttributeError")
        ELSE IF e.editform = "direct"
        THEN AddId([st EXCEPT !.d = remove(d1, up, target), !.p = up], IdOf(up))
        ELSE IF e.actor["type"] = "w"
        THEN IF st.d.el[target].kind = "w"
             THEN LET own == Above(st.d, target)
                  IN  IF IndexOf(st.d.el[own].data, target, 1) = 0
                      THEN Raise([st EXCEPT !.d = d1, !.p = own], "ValueError")
                      ELSE AddId([st EXCEPT
                                    !.d = correctoriginal(d1, own, target,
                                              e.correctionset, e.correctionclass),
                                    !.p = own], IdOf(own))
             ELSE IF st.p = Unbound THEN Raise([st EXCEPT !.d = d1], "UnboundLocalError")
                  ELSE AddId([st EXCEPT !.d = d1], IdOf(st.p))
        ELSE AddId([st EXCEPT !.d = correctoriginal(d1, up, target,
                                        e.correctionset, e.correctionclass),
                              !.p = up], IdOf(up))

\* reversed(list)
RECURSIVE Reversed(_)
Reversed(q) == IF q = <<>> THEN <<>> ELSE Append(Reversed(Tail(q)), Head(q))

\* for wordtext in texts: parent.insert(index, ElementClass(doc, wordtext,
\* generate_id_in=parent))
RECURSIVE insertwordsForward(_, _, _, _)
insertwordsForward(d, parent, i, texts) ==
    IF texts = <<>> THEN d
    ELSE insertwordsForward(insert(d, parent, i, Word(parent, Head(texts), TRUE)),
                            parent, i + 1, Tail(texts))
RECURSIVE insertwords(_, _, _, _)
insertwords(d, parent, i, texts) ==
    IF texts = <<>> THEN d
    ELSE insertwords(insert(d, parent, i, Word(parent, Head(texts), TRUE)),
                     parent, i, Tail(texts))

\* ElementClass(doc, TextContent(doc, wordtext), generate_id_in=parent) for
\* each text: the new words, made and indexed, not yet in any data
RECURSIVE makewords(_, _, _, _)
makewords(d, parent, texts, made) ==
    IF texts = <<>> THEN [d |-> d, keys |-> made]
    ELSE LET key == NewId(d, parent, "w")
             d1 == Counted(d, parent, "w")
         IN  makewords([d1 EXCEPT !.el = Put(@, key, Word(None, Head(texts), TRUE)),
                                  !.index = @ \cup {key}],
                       parent, Tail(texts), Append(made, key))

\* list without the elements of gone
Without(q, gone) == SelectSeq(q, LAMBDA x : x \notin gone)

\* parent.mergewords, insertword, insertwordleft, splitword (correctwords):
\* a new correction at position i (from 0) of the parent holds the original
\* words, taken out of the parent, and the new words (test, lines 1398-1403)
correctwords(d, parent, originals, news, i, set, cls) ==
    LET cid == NewId(d, parent, "correction")
        oid == <<"original", cid[2], cid[3]>>
        nid == <<"new", cid[2], cid[3]>>
        d1 == Counted(d, parent, "correction")
        c == [Element("correction", parent) EXCEPT
                !.data = (IF originals = <<>> THEN <<>> ELSE <<oid>>) \o <<nid>>,
                !.set = set, !.cls = cls]
        o == [Element("original", cid) EXCEPT !.data = originals]
        n == [Element("new", cid) EXCEPT !.data = news]
        added == {cid, nid} \cup (IF originals = <<>> THEN {} ELSE {oid})
    IN  [d1 EXCEPT !.el = [k \in DOMAIN d.el \cup added |->
                              IF k = cid THEN c
                              ELSE IF k = oid THEN o
                              ELSE IF k = nid THEN n
                              ELSE IF k \in Range(originals) THEN [d.el[k] EXCEPT !.parent = oid]
                              ELSE IF k \in Range(news) THEN [d.el[k] EXCEPT !.parent = nid]
                              ELSE IF k = parent
                                   THEN [d.el[k] EXCEPT
                                            !.data = Without(ListInsert(@, i, cid),
                                                             Range(originals))]
                              ELSE d.el[k]],
                   !.index = (@ \ Range(originals)) \cup {cid}]

\* element.correct(new=...) and element.correct(original=...) inside a word:
\* the text or the token annotation that was there becomes the original of
\* a new correction in the word
correctinside(d, target, set, cls, text, ann) ==
    LET cid == NewId(d, target, "correction")
        oid == <<"original", cid[2], cid[3]>>
        d1 == Counted(d, target, "correction")
        c == [Element("correction", target) EXCEPT !.data = <<oid>>, !.set = set, !.cls = cls]
        o == [Element("original", cid) EXCEPT !.text = d.el[target].text,
                                             !.ann = d.el[target].ann]
    IN  [d1 EXCEPT !.el = [k \in DOMAIN d.el \cup {cid, oid} |->
                              IF k = cid THEN c
                              ELSE IF k = oid THEN o
                              ELSE IF k = target
                                   THEN [d.el[k] EXCEPT !.data = Append(@, cid),
                                                        !.text = text, !.ann = ann]
                              ELSE d.el[k]],
                   !.index = @ \cup {cid}]

\* the value of an assignment that is there and not empty
Given(e, field) == field \in DOMAIN e.assignments /\ e.assignments[field] # <<>>

\* a word that does not suppress the space after it
Spaced(d, key) ==
    IF key \in DOMAIN d.el /\ d.el[key].kind = "w" /\ ~d.el[key].space
    THEN [d EXCEPT !.el[key].space = TRUE]
    ELSE d

\* position of the element in its parent's data, from 1; 0 when not there
Position(d, key) == IndexOf(d.el[d.el[key].parent].data, key, 1)

\* lines 638-669: the targets are merged into one new element
mergetext(st) ==
    LET e == st.edit
        d == st.d
        first == e.targets[1]
        anc == StructureAncestors(d, first)
        ancestor == anc[1]
        i == IndexOf(d.el[ancestor].data, first, 1)
        others == {t \in Range(e.targets) : StructureAncestors(d, t)[1] # ancestor}
        distinct == Cardinality(Range(e.targets)) = Len(e.targets)
        removed == [d EXCEPT !.el[ancestor].data = Without(@, Range(e.targets)),
                             !.index = @ \ Range(e.targets)]
    IN  IF anc = <<>> THEN Raise(st, "NoSuchAnnotation")
        ELSE IF i = 0 THEN Raise(st, "ValueError")
        ELSE IF others # {} THEN Fail(st, <<"Unable to merge words", first>>)
        ELSE IF e.editform \in {"direct", "new"}
        THEN IF ~(distinct /\ Range(e.targets) \subseteq Range(d.el[ancestor].data))
             THEN Raise(st, "ValueError")
             ELSE IF "text" \notin DOMAIN e.assignments
             THEN Raise([st EXCEPT !.d = removed], "KeyError")
             ELSE AddId([st EXCEPT !.d = insert(removed, ancestor, i - 1,
                                            Word(ancestor, e.assignments["text"], TRUE))],
                        ancestor)
        ELSE IF e.editform = "correction"
        THEN IF "correctionclass" \notin DOMAIN e \/ "text" \notin DOMAIN e.assignments
             THEN Raise(st, "KeyError")
             ELSE LET m == makewords(d, ancestor, <<e.assignments["text"]>>, <<>>)
                  IN  AddId([st EXCEPT !.d = correctwords(m.d, ancestor, e.targets, m.keys,
                                                i - 1, e.correctionset, e.correctionclass)],
                            ancestor)
        ELSE Raise(st, "NotImplementedError")

\* lines 681-749: one target, edit forms direct and new
textdirect(st, target) ==
    LET e == st.edit
        d == st.d
        up == d.el[target].parent
        i == Position(d, target)
    IN  IF "insertright" \in DOMAIN e.assignments
        THEN IF up = None THEN Raise([st EXCEPT !.d = Spaced(d, target)], "AttributeError")
             ELSE IF i = 0
             THEN Fail([st EXCEPT !.d = Spaced(d, target)], <<"Unable to find insertion index", target>>)
             ELSE AddId([st EXCEPT !.d = insertwords(Spaced(d, target), up, i,
                                            Reversed(split(e.assignments["insertright"], <<>>)))],
                        IdOf(up))
        ELSE IF "insertleft" \in DOMAIN e.assignments
        THEN IF up = None THEN Raise(st, "AttributeError")
             ELSE IF i = 0 THEN Fail(st, <<"Unable to find insertion index", target>>)
             ELSE AddId([st EXCEPT !.d = insertwords(
                                            IF i > 1 THEN Spaced(d, d.el[up].data[i - 1]) ELSE d,
                                            up, i - 1,
                                            Reversed(split(e.assignments["insertleft"], <<>>)))],
                        IdOf(up))
        ELSE IF "split" \in DOMAIN e.assignments
        THEN IF up = None THEN Raise(st, "AttributeError")
             ELSE IF i = 0 THEN Fail([st EXCEPT !.p = up], <<"Unable to find insertion index", target>>)
             ELSE IF "text" \notin DOMAIN e.assignments
             THEN Raise([st EXCEPT !.d = remove(d, up, target), !.p = up], "KeyError")
             ELSE AddId([st EXCEPT !.d = insertwords(remove(d, up, target), up, i - 1,
                                            Reversed(split(e.assignments["text"], <<>>))),
                                   !.p = up],
                        IdOf(up))
        ELSE IF Given(e, "text")
        THEN [st EXCEPT !.d.el[target].text = e.assignments["text"],
                        !.edit.assignments = Put(Put(@, "class",
                                IF "class" \in DOMAIN @ THEN @["class"] ELSE "current"),
                                "set", IF "set" \in DOMAIN @ THEN @["set"] ELSE e.actor["set"])]
        ELSE Raise(st, "NotImplementedError")

\* lines 756-811: one target, edit form correction
textcorrection(st, target) ==
    LET e == st.edit
        d == st.d
        up == d.el[target].parent
        i == Position(d, target)
        cs == e.correctionset
        cc == e.correctionclass
    IN  IF "insertright" \in DOMAIN e.assignments
        THEN IF "correctionclass" \notin DOMAIN e
             THEN Raise([st EXCEPT !.d = Spaced(d, target)], "KeyError")
             ELSE IF up = None THEN Raise([st EXCEPT !.d = Spaced(d, target)], "AttributeError")
             ELSE LET m == makewords(Spaced(d, target), up,
                                     split(e.assignments["insertright"], <<>>), <<>>)
                  IN  AddId([st EXCEPT !.d = correctwords(m.d, up, <<>>, m.keys, i, cs, cc)],
                            IdOf(up))
        ELSE IF "insertleft" \in DOMAIN e.assignments
        THEN IF "correctionclass" \notin DOMAIN e THEN Raise(st, "KeyError")
             ELSE IF up = None THEN Raise(st, "AttributeError")
             ELSE LET d1 == IF i > 1 THEN Spaced(d, d.el[up].data[i - 1]) ELSE d
                      m == makewords(d1, up, split(e.assignments["insertleft"], <<>>), <<>>)
                  IN  AddId([st EXCEPT !.d = correctwords(m.d, up, <<>>, m.keys, i - 1, cs, cc)],
                            IdOf(up))
        ELSE IF "split" \in DOMAIN e.assignments
        THEN IF "correctionclass" \notin DOMAIN e \/ "text" \notin DOMAIN e.assignments
             THEN Raise(st, "KeyError")
             ELSE IF up = None THEN Raise(st, "AttributeError")
             ELSE LET m == makewords(d, up, split(e.assignments["text"], <<>>), <<>>)
                  IN  AddId([st EXCEPT !.d = correctwords(m.d, up, <<target>>, m.keys,
                                                          i - 1, cs, cc)],
                            IdOf(up))
        ELSE IF "text" \notin DOMAIN e.assignments THEN Raise(st, "KeyError")
        ELSE IF e.assignments["text"] # <<>>
        THEN IF "correctionclass" \notin DOMAIN e THEN Raise(st, "KeyError")
             ELSE [st EXCEPT !.d = correctinside(d, target, cs, cc, e.assignments["text"],
                                                d.el[target].ann),
                             !.edit.assignments = Put(@, "class",
                                    IF "class" \in DOMAIN @ THEN @["class"] ELSE "current")]
        ELSE Raise(st, "NotImplementedError")

\* lines 672-811: the loop over the targets of a text edit
RECURSIVE textloop(_, _)
textloop(st, i) ==
    IF st.status # "ok" \/ i > Len(st.edit.targets) THEN st
    ELSE LET target == st.edit.targets[i]
         IN  IF ~InDoc(st.d, target) THEN NoTarget(st, target)
             ELSE IF st.edit.editform \in {"direct", "new"}
                  THEN textloop(textdirect(st, target), i + 1)
             ELSE IF st.edit.editform = "alternative"
                  THEN Fail(st, <<"Can not add alternative text yet", target>>)
             ELSE IF st.edit.editform = "correction"
                  THEN textloop(textcorrection(st, target), i + 1)
             ELSE textloop(st, i + 1)

\* lines 636-811: the edit of text content
textedit(st) ==
    IF Len(st.edit.targets) > 1 /\ "merge" \in DOMAIN st.edit.assignments
    THEN mergetext(st)
    ELSE textloop(st, 1)

\* Class.findreplaceables(target, set): the annotations of the type and set
\* that are no alternatives
Replaceable(d, target, type, set) ==
    SelectSeq(d.el[target].ann, LAMBDA a : a.type = type /\ a.set = set /\ ~a.alt)

Others(d, target, type, set) ==
    SelectSeq(d.el[target].ann, LAMBDA a : ~(a.type = type /\ a.set = set /\ ~a.alt))

\* if not 'set' in edit['assignments']: edit['assignments']['set'] = edit['actor']['set']
DefaultSet(st) ==
    IF "set" \in DOMAIN st.edit.assignments THEN st
    ELSE [st EXCEPT !.edit.assignments = Put(@, "set", st.edit.actor["set"])]

\* lines 826-860: the token annotation of one target
tokentarget(st, target) ==
    LET e == st.edit
        d == st.d
        type == e.actor["type"]
        set == e.assignments["set"]
        cls == e.assignments["class"]
        new == Token(type, set, cls, FALSE)
        old == Replaceable(d, target, type, set)
    IN  IF "class" \notin DOMAIN e.assignments THEN Raise(st, "KeyError")
        ELSE IF e.editform = "new" /\ cls # ""
        THEN IF old # <<>> THEN Raise(st, "DuplicateAnnotationError")
             ELSE [st EXCEPT !.d.el[target].ann = Append(@, new)]
        ELSE IF e.editform = "direct"
        THEN IF cls # ""
             THEN [st EXCEPT !.d.el[target].ann = Append(Others(d, target, type, set), new)]
             ELSE IF Len(old) = 1
                  THEN [st EXCEPT !.d.el[target].ann = Others(d, target, type, set)]
             ELSE IF Len(old) > 1
                  THEN Fail(st, <<"Unable to delete, multiple ambiguous candidates found", target>>)
             ELSE st
        ELSE IF e.editform = "alternative"
        THEN [st EXCEPT !.d.el[target].ann = Append(@, Token(type, set, cls, TRUE))]
        ELSE IF e.editform = "correction"
        THEN IF "correctionclass" \notin DOMAIN e THEN Raise(st, "KeyError")
             ELSE IF cls # ""
             THEN [st EXCEPT !.d = correctinside(d, target, e.correctionset, e.correctionclass,
                                        d.el[target].text,
                                        Append(Others(d, target, type, set), new))]
             ELSE IF Replaceable(d, target, type, e.actor["set"]) = <<>>
                  THEN Raise(st, "NoSuchAnnotation")
                  ELSE [st EXCEPT !.d = correctinside(d, target, e.correctionset,
                                            e.correctionclass, d.el[target].text,
                                            Others(d, target, type, e.actor["set"]))]
        ELSE st

\* lines 817-860: the loop over the targets of a token annotation edit
RECURSIVE tokenloop(_, _)
tokenloop(st, i) ==
    IF st.status # "ok" \/ i > Len(st.edit.targets) THEN st
    ELSE LET target == st.edit.targets[i]
         IN  IF ~InDoc(st.d, target) THEN NoTarget(st, target)
             ELSE tokenloop(tokentarget(DefaultSet(st), target), i + 1)

\* the first target, from 1, that is not in the document; 0 when all are
RECURSIVE FirstMissing(_, _, _)
FirstMissing(d, targets, i) ==
    IF i > Len(targets) THEN 0
    ELSE IF ~InDoc(d, targets[i]) THEN i
    ELSE FirstMissing(d, targets, i + 1)

\* Class(doc, *targets, set=, cls=, generate_id_in=owner): a new span, made
\* and indexed
makespan(d, owner, parent, kind, targets, set, cls) ==
    LET key == NewId(d, owner, kind)
        d1 == Counted(d, owner, kind)
    IN  [d |-> [d1 EXCEPT !.el = Put(@, key, [Element(kind, parent) EXCEPT
                                                !.data = targets, !.set = set, !.cls = cls]),
                          !.index = @ \cup {key}],
         key |-> key]

\* lines 881-897: a new span annotation in the layer of its type and set
\* under the common ancestor; the layer is made when there is none
newspanFreshLayer(st) ==
    LET e == st.edit
        d == st.d
        ca == st.commonancestor
        type == e.actor["type"]
        set == e.assignments["set"]
        lkey == NewId(d, ca, "layer")
        d1 == [Counted(d, ca, "layer") EXCEPT
                    !.el = Put(@, lkey, [Element(LayerClass[type], ca) EXCEPT !.set = set]),
                    !.el[ca].data = Append(@, lkey)]
        m == makespan(d1, ca, lkey, type, e.targets, set, e.assignments["class"])
    IN  AddId([st EXCEPT !.d = [m.d EXCEPT !.el[lkey].data = Append(@, m.key)]], IdOf(ca))
newspan(st) ==
    LET e == st.edit
        d == st.d
        ca == st.commonancestor
        type == e.actor["type"]
        set == e.assignments["set"]
        found == layers(d, ca, type, set)
        lkey == IF found # <<>> THEN found[1] ELSE NewId(d, ca, "layer")
        d1 == IF found # <<>> THEN d
              ELSE [Counted(d, ca, "layer") EXCEPT
                        !.el = Put(@, lkey, [Element(LayerClass[type], ca) EXCEPT !.set = set]),
                        !.el[ca].data = Append(@, lkey)]
        m == makespan(d1, ca, lkey, type, e.targets, set, e.assignments["class"])
    IN  IF "class" \notin DOMAIN e.assignments THEN Raise(st, "KeyError")
        ELSE IF ca = Unbound THEN Raise(st, "UnboundLocalError")
        ELSE IF ~InDoc(d, ca) THEN Raise(st, "KeyError")
        ELSE AddId([st EXCEPT !.d = [m.d EXCEPT !.el[lkey].data = Append(@, m.key)]],
                   IdOf(Above(m.d, lkey)))

NoSpan(st) == Fail(st, <<"No existing span annotation with id", st.edit.actor["id"]>>)
Nested(st) == Fail(st, <<"Unable to change the span, nested span annotations", st.edit.actor["id"]>>)
NoSpanId(st) == Fail(st, <<"Unable to edit span annotation without explicit id", None>>)

\* lines 900-933: the direct edit of the span annotation with the actor's id
editspanUnguarded(st) ==
    LET e == st.edit
        annotation == e.actor["id"]
        d1 == [st.d EXCEPT !.el[annotation].data = e.targets]
    IN  IF ~InDoc(st.d, annotation) THEN NoSpan(st)
        ELSE AddId([st EXCEPT !.d = [d1 EXCEPT !.el[annotation].cls = e.assignments["class"]]],
                   IdOf(Above(d1, annotation)))
editspan(st) ==
    LET e == st.edit
        d == st.d
        annotation == e.actor["id"]
        differ == wrefs(d, annotation) # e.targets
        d1 == IF differ THEN [d EXCEPT !.el[annotation].data = e.targets] ELSE d
        d2 == IF e.assignments["class"] # ""
              THEN [d1 EXCEPT !.el[annotation].cls = e.assignments["class"]]
              ELSE remove(d1, d1.el[annotation].parent, annotation)
    IN  IF "class" \notin DOMAIN e.assignments THEN Raise(st, "KeyError")
        ELSE IF ~InDoc(d, annotation) THEN NoSpan(st)
        ELSE IF differ /\ hasannotation(d, annotation, e.actor["type"]) THEN Nested(st)
        ELSE IF StructureAncestors(d2, annotation) = <<>>
             THEN Raise([st EXCEPT !.d = d2], "NoSuchAnnotation")
        ELSE AddId([st EXCEPT !.d = d2], IdOf(Above(d2, annotation)))

\* lines 943-975: the edit of the span annotation as a correction
correctspan(st) ==
    LET e == st.edit
        d == st.d
        annotation == e.actor["id"]
        layer == d.el[annotation].parent
        i == IndexOf(d.el[layer].data, annotation, 1)
        differ == wrefs(d, annotation) # e.targets
        m == makespan(d, d.el[layer].parent, None, e.actor["type"], e.targets,
                      e.assignments["set"], e.assignments["class"])
        d2 == IF e.assignments["class"] # ""
              THEN correctwords(m.d, layer, <<annotation>>, <<m.key>>, i - 1,
                                e.correctionset, e.correctionclass)
              ELSE correctoriginal(d, layer, annotation, e.correctionset, e.correctionclass)
    IN  IF "class" \notin DOMAIN e.assignments \/ "correctionclass" \notin DOMAIN e
        THEN Raise(st, "KeyError")
        ELSE IF ~InDoc(d, annotation) THEN NoSpan(st)
        ELSE IF differ /\ hasannotation(d, annotation, e.actor["type"]) THEN Nested(st)
        ELSE IF layer = None \/ i = 0 THEN Raise(st, "ValueError")
        ELSE AddId([st EXCEPT !.d = d2], IdOf(Above(d2, annotation)))

\* lines 864-980: the edit of a span annotation
spanedit(st0) ==
    LET missing == FirstMissing(st0.d, st0.edit.targets, 1)
        st == DefaultSet(st0)
        e == st.edit
    IN  IF missing > 0 THEN NoTarget(st0, st0.edit.targets[missing])
        ELSE IF e.editform = "new" THEN newspan(st)
        ELSE IF e.editform = "direct"
             THEN IF "id" \in DOMAIN e.actor THEN editspan(st) ELSE NoSpanId(st)
        ELSE IF e.editform = "alternative"
             THEN Fail(st, <<"Only direct edit form is supported for span annotation", None>>)
        ELSE IF e.editform = "correction"
             THEN IF "id" \in DOMAIN e.actor THEN correctspan(st) ELSE NoSpanId(st)
        ELSE st

\* lines 597-983: the branch the action and the class of the actor select
branch(st) ==
    LET e == st.edit
        type == e.actor["type"]
    IN  IF e.action = "delete" /\ "id" \in DOMAIN e.actor THEN deletebyid(st)
        ELSE IF type \in TextContent THEN textedit(st)
        ELSE IF type \in TokenAnnotation THEN tokenloop(st, 1)
        ELSE IF type \in SpanAnnotation THEN spanedit(st)
        ELSE Fail(st, <<"Unable to edit annotations of type", <<type, 0, 0>>>>)

\* lines 511-983: one edit of the batch
doedit(st, e) ==
    LET a == looktargets(st, e)
        b == IF a.status = "ok" THEN resolveset(a, e) ELSE a
        c == IF b.status = "ok" THEN declareset(b) ELSE b
    IN  IF c.status = "ok" THEN branch(c) ELSE c

\* lines 511-991: the loop over the edits; the first error or exception
\* ends it
RECURSIVE editloopOn(_, _)
editloopOn(st, edits) ==
    IF edits = <<>> THEN st
    ELSE editloopOn([doedit([st EXCEPT !.status = "ok"], Head(edits)) EXCEPT
                        !.status = IF st.status # "ok" THEN st.status ELSE @,
                        !.error = IF st.status # "ok" THEN st.error ELSE @],
                    Tail(edits))
RECURSIVE editloop(_, _)
editloop(st, edits) ==
    IF st.status # "ok" \/ edits = <<>> THEN st
    ELSE editloop(doedit(st, Head(edits)), Tail(edits))

\* doannotation(doc, data) as annotate calls it (lines 1113-1121): the
\* document after it and the response; an exception becomes the error
\* "The document server returned an error"
Outcome(st) ==
    [d |-> st.d, status |-> st.status, exc |-> st.exc,
     ids |-> st.ids,
     error |-> IF st.status = "raised"
               THEN <<"The document server returned an error", <<st.exc, 0, 0>>>>
               ELSE st.error]
doannotation(d, edits) == Outcome(editloop(StartApply(d), edits))

----------------------------------------------------------------------------
(* The edit engine on its own: a document as it was loaded from its file,   *)
(* and one batch of edits after the other applied to it.                    *)

MaxBatch == 2     \* a batch holds at most this many edits

W1 == Wk(1, 1)
W2 == Wk(1, 2)
W3 == Wk(1, 3)
W4 == Wk(1, 4)
W9 == Wk(1, 9)    \* the id of no element
E1 == Ek(1, 1)
E2 == Ek(1, 2)
S1 == Sk(1)
C1 == Ck(1, 1)
O1 == <<"original", 1, 1>>
L1 == Lk(1, 1)

Span(parent, set, cls, refs) ==
    [Element("entity", parent) EXCEPT !.set = set, !.cls = cls, !.data = refs]

\* a paragraph with one sentence of three words; the first word suppresses
\* its space and has a part-of-speech tag; a fourth word was deleted by a
\* correction and is its original; an entity with a nested entity
DocA ==
    [el |-> (Pk :> [Element("p", None) EXCEPT !.data = <<S1>>]
             @@ S1 :> [Element("s", Pk) EXCEPT !.data = <<W1, W2, W3, C1, L1>>]
             @@ W1 :> [Word(S1, <<"a">>, FALSE) EXCEPT !.ann = <<Token("pos", "P", "N", FALSE)>>]
             @@ W2 :> Word(S1, <<"b">>, TRUE)
             @@ W3 :> Word(S1, <<"c">>, TRUE)
             @@ C1 :> [Element("correction", S1) EXCEPT !.data = <<O1>>, !.set = "cs", !.cls = "c"]
             @@ O1 :> [Element("original", C1) EXCEPT !.data = <<W4>>]
             @@ W4 :> Word(O1, <<"d">>, TRUE)
             @@ L1 :> [Element("entities", S1) EXCEPT !.data = <<E1>>, !.set = "E"]
             @@ E1 :> Span(L1, "E", "per", <<W1, W2, E2>>)
             @@ E2 :> Span(E1, "E", "loc", <<W3>>)),
     index |-> {Pk, S1, W1, W2, W3, W4, C1, E1, E2},
     annotations |-> <<<<"pos", "P">>, <<"entity", "E">>>>,
     maxid |-> (<<0, "s">> :> 1 @@ <<1, "w">> :> 4 @@ <<1, "correction">> :> 1
                @@ <<1, "layer">> :> 1 @@ <<1, "entity">> :> 2)]

\* two sentences, an entity without nested ones, two sets declared for
\* entities and none for the other types
DocB ==
    [el |-> (Pk :> [Element("p", None) EXCEPT !.data = <<S1, Sk(2)>>]
             @@ S1 :> [Element("s", Pk) EXCEPT !.data = <<W1, W2, L1>>]
             @@ Sk(2) :> [Element("s", Pk) EXCEPT !.data = <<Wk(2, 1)>>]
             @@ W1 :> Word(S1, <<"a">>, FALSE)
             @@ W2 :> Word(S1, <<"b">>, TRUE)
             @@ Wk(2, 1) :> Word(Sk(2), <<"c">>, TRUE)
             @@ L1 :> [Element("entities", S1) EXCEPT !.data = <<E1>>, !.set = "E"]
             @@ E1 :> Span(L1, "E", "per", <<W1, W2>>)),
     index |-> {Pk, S1, Sk(2), W1, W2, Wk(2, 1), E1},
     annotations |-> <<<<"entity", "E">>, <<"entity", "E2">>>>,
     maxid |-> (<<0, "s">> :> 2 @@ <<1, "w">> :> 2 @@ <<2, "w">> :> 1
                @@ <<1, "layer">> :> 1 @@ <<1, "entity">> :> 1)]

Loaded == {DocA, DocB}

\* the edits parsequery makes: the actor has a type and a set or an id
Edit(action, editform, actor, assignments, targets) ==
    [action |-> action, editform |-> editform, actor |-> actor,
     assignments |-> assignments, targets |-> targets]

Corrected(e) ==
    [action |-> e.action, editform |-> "correction", actor |-> e.actor,
     assignments |-> e.assignments, targets |-> e.targets,
     correctionset |-> "cs", correctionclass |-> "c"]

DeleteWord(id) == Edit("delete", "direct", [type |-> "w", id |-> id], [class |-> ""], <<>>)
DeleteSpan(id) == Edit("delete", "direct", [type |-> "entity", id |-> id], [class |-> ""], <<>>)
SplitWord(id) ==
    Edit("edit", "direct", [type |-> "t"], [split |-> TRUE, text |-> <<"4", SP, "uur">>], <<id>>)
EditText(id) == Edit("edit", "direct", [type |-> "t"], [text |-> <<"x">>], <<id>>)
InsertRight(id) == Edit("edit", "direct", [type |-> "t"], [insertright |-> <<"y">>], <<id>>)
AddToken(type, targets) == Edit("add", "new", [type |-> type], [class |-> "V"], targets)
EditToken(set, targets) ==
    Edit("edit", "direct", [type |-> "pos", set |-> set], [class |-> "V"], targets)
AddSpan(targets) ==
    Edit("add", "new", [type |-> "entity", set |-> "E"], [class |-> "org"], targets)
AddSpanNoSet(targets) == Edit("add", "new", [type |-> "entity"], [class |-> "org"], targets)
EditSpan(id, targets) ==
    Edit("edit", "direct", [type |-> "entity", id |-> id], [class |-> "org"], targets)

Instructions ==
    {DeleteWord(W2), DeleteWord(W4), Corrected(DeleteWord(W2)),
     SplitWord(W2), EditText(W3), EditText(W9), InsertRight(W1),
     AddToken("pos", <<W2>>), AddToken("lemma", <<W1>>),
     EditToken("P2", <<W1, W9>>), EditToken("P", <<W9, W1>>),
     Edit("edit", "alternative", [type |-> "pos"], [class |-> "V"], <<W1>>),
     Edit("edit", "direct", [type |-> "w"], [class |-> "V"], <<W1>>),
     AddSpan(<<W1, W3>>), AddSpanNoSet(<<W2>>),
     EditSpan(E1, <<W1, W2>>), EditSpan(E1, <<W2, W3>>),
     Corrected(EditSpan(E1, <<W1, W2>>)), DeleteSpan(E1)}

Batches == UNION {[1..n -> Instructions] : n \in 1..MaxBatch}

\* Root.annotate, lines 1113-1131, for one document: the batch is applied
\* and the response made.  One request is followed per loaded document;
\* its batch is the sequence of edits the document goes through.
Apply ==
    /\ response = <<>>
    /\ \E batch \in Batches : \E r \in {doannotation(doc, batch)} :
            /\ doc' = r.d
            /\ response' = [status |-> r.status, ids |-> r.ids, error |-> r.error]
    /\ UNCHANGED <<storevars, parservars, threadvars>>

ApplyInit ==
    /\ ParserIdle
    /\ ThreadsIdle
    /\ scope = CHOOSE sc \in Scopes : sc.keys = {D1, D2}
    /\ now = 0
    /\ git = scope.git
    /\ files = {D1, TestKey}
    /\ data = {}
    /\ unsaved = {}
    /\ lastchange = EmptyMap
    /\ updateq = EmptyMap
    /\ lastaccess = EmptyMap
    /\ owed = [k \in Keys |-> [s \in Sessions |-> {}]]
    /\ doc \in Loaded
    /\ response = <<>>

ApplyNext == Apply

ApplySpec == ApplyInit /\ [][ApplyNext]_vars

----------------------------------------------------------------------------
(* Properties of the edit engine.                                           *)

\* the state of the loop after the first edit of a batch
After(e) == doedit(StartApply(doc), e)

\* C22: the edits of a batch are applied in the order of submission; when
\* an edit fails the response carries an error, no later edit is applied,
\* and what the earlier edits changed stays in the document.  For every
\* document the engine can hold and every two edits a, b: when a fails,
\* the batch <<a, b>> gives the document and the error that a alone
\* gives; when a succeeds, the batch gives what b gives on the document a
\* left behind, and when b fails there the error is b's.
C22_FirstFailureAborts ==
    \A a \in Instructions : \A b \in Instructions :
        LET one == After(a)
            two == doannotation(doc, <<a, b>>)
        IN  /\ one.status # "ok" =>
                    /\ two = doannotation(doc, <<a>>)
                    /\ two.d = one.d
                    /\ two.error # <<>>
            /\ one.status = "ok" =>
                    LET last == doedit(one, b)
                    IN  /\ two.d = last.d
                        /\ two.ids = last.ids
                        /\ two.status = last.status
                        /\ last.status # "ok" => two.error # <<>>

\* a request whose first edit changed the document and whose second edit
\* failed has been answered: the answer is an error, the change is there
C22_Witness ==
    /\ response # <<>>
    /\ response.status # "ok"
    /\ response.error # <<>>
    /\ \E d \in Loaded : \E a \in Instructions : \E b \in Instructions :
            LET one == doedit(StartApply(d), a)
            IN  /\ one.status = "ok"
                /\ one.d # d
                /\ doedit(one, b).status # "ok"
                /\ doc = doannotation(d, <<a, b>>).d
                /\ doc # d

\* the targets of the edit that are not in the document
MissingTargets(e) == {e.targets[i] : i \in {j \in DOMAIN e.targets : ~InDoc(doc, e.targets[j])}}

\* C23: an edit with a target that is not in the document's index,
\* whatever the place of the target in the list, makes doannotation return
\* (not raise) an error that names a missing id.
C23_MissingTargetReturnsError ==
    \A e \in Instructions :
        MissingTargets(e) # {} =>
            LET r == doannotation(doc, <<e>>)
            IN  /\ r.status = "error"
                /\ r.error[1] = "Target element does not exist"
                /\ r.error[2] \in MissingTargets(e)

\* C23, the targets after the first: a missing one is answered with the
\* error that names it, and the document is as it was
C23_LaterTargetReturnsError ==
    \A e \in Instructions :
        (MissingTargets(e) # {} /\ ~FirstTargetMissing(StartApply(doc), e)) =>
            LET r == doannotation(doc, <<e>>)
            IN  /\ r.status = "error"
                /\ r.error[1] = "Target element does not exist"
                /\ r.error[2] \in MissingTargets(e)
                /\ r.d = doc

\* the sets a client may name: none, the word for none, a declared one, an
\* undeclared one
SetChoices == {"none", "null", "E", "P", "X"}

\* the edit with the set named in its actor
Naming(e, set) == IF set = "none" THEN e ELSE [e EXCEPT !.actor = Put(@, "set", set)]

ExplicitSet(e) == "set" \in DOMAIN e.actor /\ e.actor["set"] # "null"
ExplicitId(e) == "id" \in DOMAIN e.actor /\ e.actor["id"] # None

\* the number of sets the document declares for the type
Declares(d, type) == Cardinality({i \in DOMAIN d.annotations : d.annotations[i][1] = type})

\* C24: the set of the actor is the explicit one; else the set of the
\* annotation the actor's id names; else the only set the document declares
\* for the type, the edit failing as ambiguous when it declares more than
\* one and the set being 'undefined' when it declares none.  A set other
\* than 'undefined' is declared on the document afterwards, and the
\* declarations that were there stay.
C24_SetResolution ==
    \A e0 \in Instructions : \A set \in SetChoices :
        LET e == Naming(e0, set)
            type == e.actor["type"]
            a == looktargets(StartApply(doc), e)
        IN  (a.status = "ok" /\ (ExplicitId(e) => InDoc(doc, e.actor["id"]))) =>
                LET r == resolveset(a, e)
                    x == declareset(r)
                IN  /\ ExplicitSet(e) => r.status = "ok" /\ r.edit.actor["set"] = e.actor["set"]
                    /\ (~ExplicitSet(e) /\ ExplicitId(e)) =>
                            r.status = "ok" /\ r.edit.actor["set"] = doc.el[e.actor["id"]].set
                    /\ (~ExplicitSet(e) /\ ~ExplicitId(e)) =>
                            /\ Declares(doc, type) = 1 =>
                                    /\ r.status = "ok"
                                    /\ docdeclared(doc, type, r.edit.actor["set"])
                            /\ Declares(doc, type) > 1 =>
                                    /\ r.status = "error"
                                    /\ r.error[1] = "ambiguous set"
                                    /\ r.d = doc
                            /\ Declares(doc, type) = 0 =>
                                    r.status = "ok" /\ r.edit.actor["set"] = "undefined"
                    /\ r.status = "ok" =>
                            /\ r.edit.actor["set"] # "undefined" =>
                                    docdeclared(x.d, type, r.edit.actor["set"])
                            /\ \A i \in DOMAIN doc.annotations : x.d.annotations[i] = doc.annotations[i]
                            /\ Len(x.d.annotations) =
                                    IF r.edit.actor["set"] = "undefined" \/ docdeclared(doc, type, r.edit.actor["set"])
                                    THEN Len(doc.annotations) ELSE Len(doc.annotations) + 1

\* a request without explicit set has been answered and left a set declared
\* that the document did not declare when it was loaded
C24_Witness ==
    /\ response # <<>>
    /\ response.status = "ok"
    /\ \E d \in Loaded :
            /\ Len(doc.annotations) > Len(d.annotations)
            /\ \A i \in DOMAIN d.annotations : doc.annotations[i] = d.annotations[i]

\* C25: the list of affected ids (returnelementids) in the response to a
\* batch names no element twice.
C25_NoDuplicateIds ==
    response # <<>> =>
        \A i \in DOMAIN response.ids : \A j \in DOMAIN response.ids :
            response.ids[i] = response.ids[j] => i = j

\* a batch of two edits that both succeeded and both affect the same
\* element has been answered
C25_Witness ==
    /\ response # <<>>
    /\ response.status = "ok"
    /\ \E d \in Loaded : \E a \in Instructions : \E b \in Instructions :
            LET one == doedit(StartApply(d), a)
                two == doannotation(d, <<a, b>>)
            IN  /\ one.status = "ok"
                /\ two.status = "ok"
                /\ doc = two.d
                /\ response.ids = two.ids
                /\ Range(one.ids) \cap Range(doannotation(one.d, <<b>>).ids) # {}

\* the words of the document
Words == {k \in doc.index : doc.el[k].kind = "w"}

\* the sibling before the element in the document, None when it is the first
Before(k) ==
    LET sibs == doc.el[doc.el[k].parent].data
        i == IndexOf(sibs, k, 1)
    IN  IF i > 1 THEN sibs[i - 1] ELSE None

\* the direct deletion of word k has taken it out of its parent and out of
\* the index and has given the word before it its space back
Detached(k, r) ==
    /\ r.status = "ok"
    /\ ~InDoc(r.d, k)
    /\ IndexOf(r.d.el[doc.el[k].parent].data, k, 1) = 0
    /\ r.d.el[doc.el[k].parent].data = Without(doc.el[doc.el[k].parent].data, {k})
    /\ (Before(k) # None /\ doc.el[Before(k)].kind = "w") => r.d.el[Before(k)].space

\* C26: DELETE of a word by its id, edit form direct, takes the word out
\* of its parent and its id out of the document, and the word before it
\* no longer suppresses its space; the same DELETE once more is answered
\* with the error that the target does not exist, raises nothing, and
\* leaves the document as it is.
C26_DeleteThenRepeat ==
    \A k \in Words :
        LET r == doannotation(doc, <<DeleteWord(k)>>)
            again == doannotation(r.d, <<DeleteWord(k)>>)
        IN  /\ Detached(k, r)
            /\ again.status = "error"
            /\ again.error[1] = "Target element does not exist"
            /\ again.d = r.d

\* C26, what the code does: the first DELETE as claimed; the second one
\* raises KeyError and leaves the document as it is
C26_RepeatRaises ==
    \A k \in Words :
        LET r == doannotation(doc, <<DeleteWord(k)>>)
            again == doannotation(r.d, <<DeleteWord(k)>>)
        IN  /\ Detached(k, r)
            /\ again.status = "raised"
            /\ again.exc = "KeyError"
            /\ again.d = r.d

\* texts of one, two and three words
SplitTexts == {<<"x">>, <<"4", SP, "uur">>, <<"a", SP, "b", SP, "c">>}

\* EDIT t WITH split text FOR k
Splitting(k, text) ==
    Edit("edit", "direct", [type |-> "t"], [split |-> TRUE, text |-> text], <<k>>)

\* the words that stand in a sentence or paragraph
Placed == {k \in Words : doc.el[k].parent # None
                         /\ doc.el[doc.el[k].parent].kind \in Structure
                         /\ Position(doc, k) > 0}

\* C27: the direct split of a word with a text of n words separated by
\* blanks takes the word out of the document and puts n new words where it
\* stood, in the order of the text, between the siblings the word had; the
\* texts of the new words joined with blanks are the text given.
C27_SplitReplacesInPlace ==
    \A k \in Placed : \A text \in SplitTexts :
        LET r == doannotation(doc, <<Splitting(k, text)>>)
            up == doc.el[k].parent
            old == doc.el[up].data
            now_ == r.d.el[up].data
            i == Position(doc, k)
            n == Len(split(text, <<>>))
        IN  /\ r.status = "ok"
            /\ ~InDoc(r.d, k)
            /\ Len(now_) = Len(old) - 1 + n
            /\ SubSeq(now_, 1, i - 1) = SubSeq(old, 1, i - 1)
            /\ SubSeq(now_, i + n, Len(now_)) = SubSeq(old, i + 1, Len(old))
            /\ \A j \in 0..(n - 1) :
                    /\ now_[i + j] \notin doc.index
                    /\ now_[i + j] \notin Range(old)
                    /\ InDoc(r.d, now_[i + j])
                    /\ r.d.el[now_[i + j]].kind = "w"
                    /\ r.d.el[now_[i + j]].parent = up
                    /\ r.d.el[now_[i + j]].text = split(text, <<>>)[j + 1]
                    /\ \A h \in 0..(n - 1) : now_[i + h] = now_[i + j] => h = j
            /\ Join([j \in 1..n |-> r.d.el[now_[i + j - 1]].text]) = text

\* the second word of a loaded document has been split in two
C27_Witness ==
    /\ response # <<>>
    /\ response.status = "ok"
    /\ \E d \in Loaded :
            /\ doc = doannotation(d, <<SplitWord(W2)>>).d
            /\ ~InDoc(doc, W2)
            /\ Len(doc.el[S1].data) = Len(d.el[S1].data) + 1

\* lists of one or two different words of the document, next to each other
\* or not
SpanTargets == {<<a>> : a \in Words} \cup {q \in {<<a, b>> : a \in Words, b \in Words} : q[1] # q[2]}

\* a declared set and an undeclared one
SpanSets == {"E", "X"}

\* ADD entity OF set WITH class org FOR targets
Spanning(targets, set) ==
    Edit("add", "new", [type |-> "entity", set |-> set], [class |-> "org"], targets)

\* the nearest structure element that is above every one of the targets
Common(targets) ==
    SelectSeq(StructureAncestors(doc, targets[1]),
              LAMBDA a : \A i \in DOMAIN targets : a \in Range(StructureAncestors(doc, targets[i])))[1]

\* no structure element of the document has two layers of one type and set
OneLayer(d) ==
    \A k \in {x \in DOMAIN d.el : d.el[x].kind \in Structure} :
        \A set \in SpanSets : Len(layers(d, k, "entity", set)) <= 1

Spans(d) == {k \in d.index : d.el[k].kind \in SpanAnnotation}

\* the span annotations that have a span annotation nested in them
NestedSpans == {k \in Spans(doc) : hasannotation(doc, k, doc.el[k].kind)}

\* every element a span of the document refers to is in the document
SpansResolve(d) ==
    \A k \in Spans(d) : \A i \in DOMAIN d.el[k].data : InDoc(d, d.el[k].data[i])

\* the edit of a span that has nested spans, with other targets than it
\* has, fails and changes nothing
NestedGuard ==
    \A k \in NestedSpans : \A targets \in SpanTargets :
        \A e \in {EditSpan(k, targets), Corrected(EditSpan(k, targets))} :
            targets # wrefs(doc, k) =>
                LET r == doannotation(doc, <<e>>)
                IN  /\ r.status = "error"
                    /\ r.error[1] = "Unable to change the span, nested span annotations"
                    /\ r.d.el = doc.el
                    /\ r.d.index = doc.index

\* C29: the edit, direct or as a correction, of a span annotation that has
\* nested span annotations, with a list of targets other than its own,
\* fails with an error and leaves the span and the rest of the tree as
\* they were; and after any sequence of edits every span of the document
\* refers only to elements that are in the document.
C29_SpanTargetsResolve == NestedGuard /\ SpansResolve(doc)

\* C29, the first half alone: the edit of a span with nested spans
C29_NestedSpanGuard == NestedGuard

\* the corrections of the document
Corrections(d) == {k \in DOMAIN d.el : d.el[k].kind = "correction"}

\* what the correction holds as its original: the elements, with their
\* text, annotations and content
OriginalOf(d, c) ==
    LET held == SelectSeq(d.el[c].data, LAMBDA k : k[1] = "original")
    IN  [i \in DOMAIN held |->
            [text |-> d.el[held[i]].text,
             ann |-> d.el[held[i]].ann,
             data |-> [j \in DOMAIN d.el[held[i]].data |->
                         LET k == d.el[held[i]].data[j]
                         IN  <<k, d.el[k].text, d.el[k].ann, d.el[k].data, d.el[k].cls>>]]]

\* DELETE of word k as a correction has put a new correction in the place
\* of the word, with the word, as it was, as its original
KeptAsOriginal(k, r) ==
    /\ r.status = "ok"
    /\ \E c \in Corrections(r.d) \ Corrections(doc) :
            /\ r.d.el[doc.el[k].parent].data[Position(doc, k)] = c
            /\ Len(OriginalOf(r.d, c)) = 1
            /\ OriginalOf(r.d, c)[1].data =
                    <<<<k, doc.el[k].text, doc.el[k].ann, doc.el[k].data, doc.el[k].cls>>>>

\* C30: what a correction of the document holds as its original is the
\* same after every edit, whatever its form; and the DELETE of a word by
\* its id as a correction keeps the word as the original of the new
\* correction.
C30_OriginalImmutable ==
    /\ \A e \in Instructions : \A c \in Corrections(doc) :
            OriginalOf(doannotation(doc, <<e>>).d, c) = OriginalOf(doc, c)
    /\ \A k \in Placed : KeptAsOriginal(k, doannotation(doc, <<Corrected(DeleteWord(k))>>))

\* the elements the correction holds as its original cannot be looked up
\* by their ids
Sealed(d, c) ==
    \A i \in DOMAIN d.el[c].data :
        d.el[c].data[i][1] = "original" =>
            \A j \in DOMAIN d.el[d.el[c].data[i]].data : ~InDoc(d, d.el[d.el[c].data[i]].data[j])

\* C30, the corrections whose originals are out of the document's index,
\* as those the engine makes are, and the deletion as a correction
C30_SealedOriginalsKept ==
    /\ \A e \in Instructions : \A c \in {x \in Corrections(doc) : Sealed(doc, x)} :
            OriginalOf(doannotation(doc, <<e>>).d, c) = OriginalOf(doc, c)
    /\ \A k \in Placed :
            LET r == doannotation(doc, <<Corrected(DeleteWord(k))>>)
            IN  /\ KeptAsOriginal(k, r)
                /\ \A c \in Corrections(r.d) \ Corrections(doc) : Sealed(r.d, c)

\* a declared set of part-of-speech tags and an undeclared one
TokenSets == {"P", "X"}

\* DELETE type OF set FOR w: a direct edit without class
DeleteToken(type, set, w) ==
    Edit("delete", "direct", [type |-> type, set |-> set], [class |-> ""], <<w>>)

\* the deletion took the one annotation of the type and set out of the
\* word and left the others
TokenRemoved(type, set, w, r) ==
    /\ r.status = "ok"
    /\ Replaceable(r.d, w, type, set) = <<>>
    /\ r.d.el[w].ann = Others(doc, w, type, set)
    /\ r.d.el[w].text = doc.el[w].text

\* C31: the direct deletion of a token annotation (no class given) takes
\* the annotation out of the target when the target has exactly one
\* replaceable annotation of the type and set, and returns an error and
\* leaves the target as it was when it has several or none.
C31_DirectTokenDeletion ==
    \A w \in Words : \A type \in TokenAnnotation : \A set \in TokenSets :
        LET r == doannotation(doc, <<DeleteToken(type, set, w)>>)
            n == Len(Replaceable(doc, w, type, set))
        IN  /\ n = 1 => TokenRemoved(type, set, w, r)
            /\ n # 1 => r.status = "error" /\ r.d.el[w] = doc.el[w]

\* C31, what the code does: one candidate is removed; without candidate
\* the edit ends without error and the tree is as it was
C31_MissingIsSilent ==
    \A w \in Words : \A type \in TokenAnnotation : \A set \in TokenSets :
        LET r == doannotation(doc, <<DeleteToken(type, set, w)>>)
            n == Len(Replaceable(doc, w, type, set))
        IN  /\ n = 1 => TokenRemoved(type, set, w, r)
            /\ n = 0 => r.status = "ok" /\ r.error = <<>> /\ r.d.el = doc.el

----------------------------------------------------------------------------
(* Properties of the annotate request, stated of the request made next *)

Last(q) == q[Len(q)]

\* the requests of the scope that end in a document of kind kind
RequestsEnding(kind) ==
    {q \in RequestItems(scope.keys) : q # <<>> /\ Last(q).kind = kind}

\* every document the request selects is in the namespace of the request
\* and can be loaded
Servable(c, items) ==
    \A i \in DOMAIN items :
        items[i].key[1] = c[1][1] /\ CanLoad(Server, items[i].key)

\* C32: an exception raised while a batch of edits is applied is caught by
\* annotate and answered with an error response; the document stays
\* resident in the store and later requests on its key are served.
C32_FaultIsCaught ==
    \A c \in scope.clients, items \in RequestsEnding("fault") :
        Servable(c, items) =>
            LET k == Last(items).key
                r == annotate(Server, c[1], c[2], items, now)
            IN  /\ r.status = "error"
                /\ StoreKey(k) \in r.S.data
                /\ getitem(r.S, k, now) = [S |-> r.S, status |-> "ok"]
                /\ getdoc(r.S, k, c[2], now).status = "ok"
                /\ poll(r.S, k, c[2], now).status \in {"ok", "empty"}

\* a request that raises on a document it had to load
C32_Witness ==
    \E c \in scope.clients, items \in RequestsEnding("fault") :
        LET k == Last(items).key
            r == annotate(Server, c[1], c[2], items, now)
        IN  /\ Servable(c, items)
            /\ StoreKey(k) \notin data
            /\ r.status = "error"
            /\ StoreKey(k) \in r.S.data
            /\ getdoc(r.S, k, c[2], now).status = "ok"

\* C32, the message: the error response of a batch that raised carries
\* the exception
C32_FaultCarriesMessage ==
    \A e \in Instructions :
        LET r == doannotation(doc, <<e>>)
        IN  r.status = "raised" =>
                /\ r.exc # ""
                /\ r.error = <<"The document server returned an error", <<r.exc, 0, 0>>>>

\* the pending queue of session s on document k, empty when there is none
QueueOf(uq, k, s) == IF HasQueue(uq, k, s) THEN uq[k][s] ELSE <<>>

\* the pending queues of document k
QueuesOf(uq, k) == IF k \in DOMAIN uq THEN uq[k] ELSE EmptyMap

\* the batch of document k returned ids without error
Committed(items, k) ==
    \E i \in DOMAIN items :
        items[i].key = k /\ items[i].kind = "ok" /\ items[i].ids # <<>>

\* C33: a request whose batch on document K ends in an error neither saves
\* K nor changes a pending queue of K; a pending queue gains ids only from
\* a batch that returned without error, and by then the document is saved.
\* (In the test namespace save runs the tests and writes no document file.)
C33_CommitAfterSuccess ==
    \A c \in scope.clients, items \in RequestItems(scope.keys) :
        Servable(c, items) =>
            LET r == annotate(Server, c[1], c[2], items, now)
            IN  /\ (items # <<>> /\ Last(items).kind # "ok") =>
                    LET k == Last(items).key
                    IN  /\ r.status = "error"
                        /\ QueuesOf(r.S.updateq, k) = QueuesOf(updateq, k)
                        /\ k \in r.S.files <=> k \in files
                        /\ StoreKey(k) \in r.S.unsaved
                /\ \A k \in scope.keys, s \in Sessions :
                        Len(QueueOf(r.S.updateq, k, s)) > Len(QueueOf(updateq, k, s)) =>
                            /\ Committed(items, k)
                            /\ s # c[2]
                            /\ k[1] # "testflat" =>
                                    k \in r.S.files /\ k \notin r.S.unsaved

\* a request that fails on a document another session is waiting on, and a
\* request that commits on it
C33_Witness ==
    \E c \in scope.clients, items \in RequestsEnding("error"), s \in Sessions :
        LET k == Last(items).key
            r == annotate(Server, c[1], c[2], items, now)
            ok == annotate(Server, c[1], c[2], <<Item(k, "ok", <<"w1">>)>>, now)
        IN  /\ Servable(c, items)
            /\ s # c[2] /\ HasQueue(updateq, k, s)
            /\ k \notin unsaved
            /\ r.status = "error"
            /\ r.S.updateq[k] = updateq[k]
            /\ k \in r.S.unsaved
            /\ Len(ok.S.updateq[k][s]) > Len(updateq[k][s])
            /\ k \in ok.S.files /\ k \notin ok.S.unsaved

\* session s polls document k now and again 12 hours later, another
\* session committing ids on k right before the second poll
PollTwice(k, s, other, ids) ==
    LET first == poll(Server, k, s, now)
        later == now + SessionTimeout
        commit == annotate(first.S, k, other, <<Item(k, "ok", ids)>>, later)
    IN  [first |-> first, commit |-> commit,
         second |-> poll(commit.S, k, s, later)]

\* C34: a session that polls document K at least once every 12 hours is
\* never removed by the session sweep, and the ids another session commits
\* on K are returned to it by a poll.  Stated of two polls 12 hours apart
\* by a session whose record has not expired at the first one.
C34_RegularPollerServed ==
    \A c \in Clients, o \in Clients :
        (/\ Known(c[1], c[2]) /\ NotTest(c[1])
         /\ ~Stale(Server, c[1], c[2], now)
         /\ o[1] = c[1] /\ o[2] # c[2]
         /\ CanLoad(Server, c[1]))
            => LET r == PollTwice(c[1], c[2], o[2], <<"w1">>)
               IN  /\ HasQueue(r.first.S.updateq, c[1], c[2])
                   /\ HasQueue(r.commit.S.updateq, c[1], c[2])
                   /\ HasQueue(r.second.S.updateq, c[1], c[2])
                   /\ r.first.ids = updateq[c[1]][c[2]]
                   /\ r.second.ids = <<"w1">>

\* C34, what the code does: the session is kept and served when its first
\* poll had ids to return, which is the only case in which poll writes the
\* timestamp
C34_ServedAfterDelivery ==
    \A c \in Clients, o \in Clients :
        (/\ Known(c[1], c[2]) /\ NotTest(c[1])
         /\ ~Stale(Server, c[1], c[2], now)
         /\ updateq[c[1]][c[2]] # <<>>
         /\ o[1] = c[1] /\ o[2] # c[2]
         /\ CanLoad(Server, c[1]))
            => LET r == PollTwice(c[1], c[2], o[2], <<"w1">>)
               IN  /\ r.first.S.lastaccess[c[1]][c[2]] = now
                   /\ HasQueue(r.second.S.updateq, c[1], c[2])
                   /\ r.first.ids = updateq[c[1]][c[2]]
                   /\ r.second.ids = <<"w1">>

\* every id that q2 holds less often than q1 is one of del
LeftOnly(q1, q2, del) ==
    \A e \in Range(q1) : Count(q2, e) < Count(q1, e) => e \in Range(del)

\* After a request of session c that left the server as S2 and returned
\* the ids del to c: a session with a queue lost its record only by
\* expiry, and an id left a queue only when it was returned to the queue's
\* own session
PendingKept(S2, c, del) ==
    \A k \in DOMAIN updateq : \A s \in DOMAIN updateq[k] :
        IF HasQueue(S2.updateq, k, s)
        THEN LeftOnly(updateq[k][s], S2.updateq[k][s],
                      IF <<k, s>> = c THEN del ELSE <<>>)
        ELSE Stale(Server, k, s, now)

\* the requests other than getdoc keep what is pending
OthersKeepPending ==
    /\ \A c \in Clients :
        /\ LET r == poll(Server, c[1], c[2], now)
           IN  PendingKept(r.S, c, r.ids)
        /\ \A e \in ElementIds \cup {RootId} :
                PendingKept(getelements(Server, c[1], <<e>>, c[2], now).S, c, <<e>>)
        /\ \A items \in RequestItems(scope.keys) :
                LET r == annotate(Server, c[1], c[2], items, now)
                IN  PendingKept(r.S, c, r.ids)
        /\ \A known \in BOOLEAN :
                PendingKept(declare(Server, c[1], c[2], known, now).S, c, <<>>)
    /\ \A k \in scope.keys, b \in BOOLEAN :
        /\ PendingKept(revert(Server, k, b, git, now).S, <<>>, <<>>)
        /\ PendingKept(upload(Server, k, b, now).S, <<>>, <<>>)
        /\ PendingKept(unloadcall(Server, k, b, now).S, <<>>, <<>>)
    /\ \A dosave \in BOOLEAN, order \in Orders(autounloadkeys(Server, now)) :
            PendingKept(autounloadloop(Server, order, dosave, now).S, <<>>, <<>>)

\* C35: an id leaves the pending queue of an existing session only when it
\* is returned to that session by poll or getelements or when the session
\* expires; a repeated getdoc of the session discards no pending id.
C35_PendingLeavesByDelivery ==
    /\ OthersKeepPending
    /\ \A c \in Clients :
            PendingKept(getdoc(Server, c[1], c[2], now).S, c, <<>>)

\* C35, what the code does: getdoc of a session that has a queue puts an
\* empty list in its place, whatever was pending; every other request
\* keeps what is pending
C35_GetdocResetsQueue ==
    /\ OthersKeepPending
    /\ \A c \in Clients :
            Known(c[1], c[2]) =>
                LET r == getdoc(Server, c[1], c[2], now)
                IN  /\ r.S.updateq[c[1]][c[2]] = <<>>
                    /\ PendingKept(r.S, c, updateq[c[1]][c[2]])

\* the sessions that map m records for document k
SessionsOf(m, k) == IF k \in DOMAIN m THEN DOMAIN m[k] ELSE {}

\* C36: the two tracker maps agree: for every document key the sessions
\* with a last-access timestamp are the sessions with a pending queue.
C36_TrackerMapsAgree ==
    \A k \in Keys : SessionsOf(lastaccess, k) = SessionsOf(updateq, k)

\* C36, what the code keeps: every session with a pending queue has a
\* timestamp
C36_QueueHasTimestamp ==
    \A k \in Keys : SessionsOf(updateq, k) \subseteq SessionsOf(lastaccess, k)

\* C37: in the document store the keys with a resident document are the
\* keys with a last-change timestamp, the test namespace included.
C37_ResidentHasLastChange == data = DOMAIN lastchange

\* C37, the half that fails through the test namespace only: outside it a
\* key with a last-change timestamp has a resident document
C37_LastChangeIsResident == (DOMAIN lastchange) \ {TestKey} \subseteq data

\* C37, the half that fails through upload only: a document that load put
\* into the store has a last-change timestamp
C37_LoadedHasLastChange ==
    \A k \in scope.keys :
        LET r == getitem(Server, k, now)
        IN  (r.status = "ok" /\ StoreKey(k) \notin data) =>
                /\ StoreKey(k) \in r.S.data
                /\ StoreKey(k) \in DOMAIN r.S.lastchange

----------------------------------------------------------------------------
(* The filing of a statement's instruction, stated of the statement that is *)
(* parsed next                                                              *)

\* the documents the next statement's own IN clause selects
OwnDocs == DOMAIN parsequery(Head(queries), NoData).data.edits

\* the instructions filed under document k so far
Filed(d, k) == IF k \in DOMAIN d.edits THEN d.edits[k] ELSE <<>>

\* C38: in a request of several statements the instruction of a statement
\* whose IN clause selects documents is filed under those documents and is
\* not added to the documents that only earlier statements selected.
C38_FiledUnderOwnDocuments ==
    (Pending /\ Parsed.status = "ok" /\ OwnDocs # {}) =>
        \A k \in DOMAIN Parsed.data.edits :
            IF k \in OwnDocs
            THEN Len(Parsed.data.edits[k]) = Len(Filed(pdata, k)) + 1
            ELSE Parsed.data.edits[k] = pdata.edits[k]

\* C38, what the code does: the instruction is appended under every
\* document the request has selected so far
C38_FiledUnderEveryDocument ==
    (Pending /\ Parsed.status = "ok") =>
        /\ DOMAIN Parsed.data.edits = (DOMAIN pdata.edits) \cup OwnDocs
        /\ \E e \in {Parsed.data.edits[Parsed.data.order[1]][
                            Len(Parsed.data.edits[Parsed.data.order[1]])]} :
                \A k \in DOMAIN Parsed.data.edits :
                    Parsed.data.edits[k] = Append(Filed(pdata, k), e)

----------------------------------------------------------------------------
(* Namespaces and the reach of a commit *)

\* the requests of session c that select a document of another namespace,
\* the documents selected before it being loadable
Trespassing(c) ==
    {q \in RequestsEnding("ok") :
        /\ Last(q).key[1] # c[1][1]
        /\ \A i \in 1..(Len(q) - 1) :
                q[i].key[1] = c[1][1] /\ CanLoad(Server, q[i].key)}

\* C39: an annotate request in namespace N with a statement that selects a
\* document of another namespace is rejected with a permission error and
\* no document is changed, saved or announced to sessions by it.
C39_ForeignNamespaceRejected ==
    \A c \in scope.clients : \A items \in Trespassing(c) :
        LET r == annotate(Server, c[1], c[2], items, now)
        IN  /\ r.status = "403"
            /\ r.commits = {}
            /\ r.S.unsaved = unsaved
            /\ r.S.files = files
            /\ r.S.updateq = updateq

\* C39, what the code does: the request is rejected when the loop reaches
\* the foreign document, and nothing has happened by then only when that
\* document is the first one selected
C39_RejectedWhenReached ==
    \A c \in scope.clients : \A items \in Trespassing(c) :
        LET r == annotate(Server, c[1], c[2], items, now)
        IN  /\ r.status = "403"
            /\ Len(items) = 1 => r.S = Server /\ r.commits = {}
            /\ r.S = annotateloop([S |-> Server, status |-> "run", ret |-> <<>>,
                                   commits |-> {}],
                                  c[1], c[2], SubSeq(items, 1, Len(items) - 1), now).S

\* the timestamp of session s on document k, <<>> when there is none
StampOf(la, k, s) == IF HasQueue(la, k, s) THEN <<la[k][s]>> ELSE <<>>

\* the commits of ids on one document a session of the scope can make
Commits ==
    {x \in [c : scope.clients, k : scope.keys, ids : IdLists \ {<<>>}] :
        x.k[1] = x.c[1][1] /\ CanLoad(Server, x.k)}

\* the server after the loop of annotate has committed x
CommitOf(x) ==
    annotateloop([S |-> Server, status |-> "run", ret |-> <<>>, commits |-> {}],
                 x.c[1], x.c[2], <<Item(x.k, "ok", x.ids)>>, now).S

C40_RequestReachesOnlyItsDocuments ==
    \A x \in Commits :
        \E r \in {annotate(Server, x.c[1], x.c[2], <<Item(x.k, "ok", x.ids)>>, now)} :
            \A k \in Keys, s \in Sessions :
                /\ HasQueue(r.S.updateq, k, s) <=> HasQueue(updateq, k, s)
                /\ <<k, s>> # x.c =>
                        QueueOf(r.S.updateq, k, s) =
                            IF k = x.k /\ s # x.c[2] /\ HasQueue(updateq, k, s)
                            THEN updateq[k][s] \o x.ids
                            ELSE QueueOf(updateq, k, s)
                /\ <<k, s>> = x.c =>
                        Len(QueueOf(r.S.updateq, k, s)) <= Len(QueueOf(updateq, k, s))
                /\ <<k, s>> # x.c =>
                        StampOf(r.S.lastaccess, k, s) = StampOf(lastaccess, k, s)
====
